---------------------------- MODULE Spec2Model ----------------------------
(***************************************************************************)
(* Verification model of jlc_has_it's catalog cache and query engine:      *)
(*   - DatabaseManager (src/jlc_has_it/core/database.py): freshness check, *)
(*     multi-part download, extraction, validation, get_connection;        *)
(*   - the schema optimizer and the FTS5 builder run by get_connection;    *)
(*   - ComponentSearch and SearchResult (src/jlc_has_it/core/search.py),   *)
(*     JLCTools.search_components (src/jlc_has_it/mcp/tools.py);           *)
(*   - unit_utils.compare_values and LibraryDownloader.                    *)
(* The specifications of the module: SpecCache, SpecConn, SpecMig,         *)
(* SpecSearch, SpecPage, SpecQuery, SpecResult, SpecUnit, SpecPool.        *)
(***************************************************************************)
EXTENDS Integers, Sequences, FiniteSets, TLC

(***************************************************************************)
(* Bounds of the model.                                                    *)
(***************************************************************************)
\* the clock runs 0..MaxClock, in days
MaxClock == 3
\* the numbered-part loop runs part_num = 1..MaxPartNum (99 in the source,
\* database.py:92; reduced here, the loop is the same for every bound)
MaxPartNum == 2

\* DatabaseManager.MAX_AGE_DAYS
MAX_AGE_DAYS == 1

\* independent OS processes sharing one cache directory
Procs == {"p1", "p2"}

\* name of the final part cache.zip among the part files (cache.zNN is NN)
ZipPart == 0

\* rows of the components table of the modelled store: 1..NumRows
NumRows == 2

\* components of the store searched by ComponentSearch: lcsc 1..NumComps
NumComps == 3

VARIABLES
  \* ---- cache directory and clock (shared by all processes)
  clock,      \* datetime.now(), in days
  snap,       \* cache.sqlite3: [exists, mtime, content, validated]
  parts,      \* part files present in cache_dir: subset of 0..MaxPartNum
  \* ---- per process: position in get_connection / update_if_needed / download_database
  pc,         \* control point
  partNum,    \* part_num of the download loop
  partFiles,  \* part_files: sequence of part names written by this call
  exc,        \* exception in flight / raised ("none" when none)
  updRet,     \* return value of update_if_needed: "none", "True" or "False"
  \* ---- observations kept for the properties (never read by the program)
  fetchLog,   \* requests.get calls of the current operation: <<[part, outcome]>>
  chkExists,  \* database_path.exists() as seen by the last needs_update()
  chkAge,     \* age as seen by the last needs_update()
  ranExtract, \* this call ran 7z
  opened,     \* what sqlite3.connect opened in get_connection
  dlFresh     \* needs_update() at the instant download_database returned or raised:
              \* "none", "fresh" (False) or "stale" (True)

VARIABLES
  \* ---- the store behind the connections (the SQLite file), shared by all processes
  roStore,    \* the database file is read-only
  compCat,    \* components.category_id per row
  compMan,    \* components.manufacturer_id per row
  col,        \* denormalized columns of components: name -> [present, val: row -> text]
  idx,        \* indexes present
  ftsExists,  \* table components_fts exists
  ftsDocs,    \* components_fts: row id -> number of index entries
  writer,     \* the connection holding SQLite's write (RESERVED) lock, or "none"
  \* ---- per process: position in _init_fts5 / _optimize_schema and its open transaction
  mpc,        \* control point
  mi,         \* which of the ALTER / UPDATE / CREATE INDEX statements comes next
  txCol,      \* uncommitted UPDATEs: name -> [present, val]
  txIdx,      \* uncommitted CREATE INDEXes
  txFts,      \* uncommitted INSERT INTO components_fts
  merr,       \* message of the last sqlite3.OperationalError ("none" when none)
  \* ---- observations kept for the properties
  solo,       \* no other process was in a migration during this call
  oStart      \* columns and indexes of the store when this call entered _optimize_schema

cacheVars == <<clock, snap, parts, pc, partNum, partFiles, exc, updRet,
               fetchLog, chkExists, chkAge, ranExtract, opened, dlFresh>>

migVars == <<roStore, compCat, compMan, col, idx, ftsExists, ftsDocs, writer,
             mpc, mi, txCol, txIdx, txFts, merr, solo, oStart>>

VARIABLES
  \* ---- ComponentSearch on an unmodified store
  db,         \* components rows by lcsc (INTEGER PRIMARY KEY): [basic, stock, price]
  query,      \* QueryParams of the last search() ([set |-> FALSE] before the first)
  res,        \* outcome of the last search(): [status, page]
  res0,       \* outcome of the execution before it (NoResult when there was none)
  query0      \* QueryParams of the execution that returned res0

searchVars == <<db, query, res, res0, query0>>

VARIABLES
  \* ---- the statement behind the last call, and what the MCP tool echoes
  stmt,       \* [text, args] handed to conn.execute by the last call
  echo,       \* offset and limit in the dictionary search_components returned
  libs        \* the library validation of the last search_components: what search()
              \* returned, the ids handed to the downloader, validated_lcsc_ids

queryVars == <<stmt, echo, libs>>

VARIABLES
  \* ---- a SearchResult in the hands of a caller
  sr,         \* the SearchResult: [n (len(results)), offset, limit, total_count]
  hasMore,    \* what sr.has_more returned (None before it was read)
  nextPage    \* what sr.next_page() returned ([called |-> FALSE] before the call)

resultVars == <<sr, hasMore, nextPage>>

VARIABLES
  \* ---- unit_utils.compare_values
  cmpIn,      \* the two value strings handed to compare_values
  cmpRet      \* what it returned ([called |-> FALSE] before the call)

unitVars == <<cmpIn, cmpRet>>

VARIABLES
  \* ---- LibraryDownloader.download_components_parallel
  lcsc_ids,     \* the ids asked for, and max_workers: [ids, max_workers, validated_only]
  futures,      \* per submitted task: [state, outcome (how the tool ended), result]
  libDir,       \* per id: what the cache directory of that id holds
  results,      \* the results dictionary of the collecting loop
  poolRet       \* what the call returned ([returned |-> FALSE] before)

poolVars == <<lcsc_ids, futures, libDir, results, poolRet>>

\* the state of the parts that do not touch the cache directory or a store
sideVars == <<resultVars, unitVars, poolVars>>

vars == <<cacheVars, migVars, searchVars, queryVars, sideVars>>

\* what the actions of one part leave alone
notCache == <<migVars, searchVars, queryVars, sideVars>>
notMig == <<cacheVars, searchVars, queryVars, sideVars>>
notSearch == <<cacheVars, migVars, queryVars, sideVars>>
notQuery == <<cacheVars, migVars, sideVars>>
notSide == <<cacheVars, migVars, searchVars, queryVars>>

Range(s) == {s[i] : i \in DOMAIN s}

(***************************************************************************)
(* DatabaseManager: freshness                                              *)
(***************************************************************************)
MissingSnap == [exists |-> FALSE, mtime |-> 0, content |-> "none", validated |-> FALSE]

\* check_database_age: None (present = FALSE) when the file does not exist,
\* else now - st_mtime
CheckDatabaseAge(s, now) ==
  IF ~s.exists THEN [present |-> FALSE, age |-> 0]
               ELSE [present |-> TRUE, age |-> now - s.mtime]

NeedsUpdateGE(s, now) ==
  LET a == CheckDatabaseAge(s, now)
  IN  IF ~a.present THEN TRUE ELSE a.age >= MAX_AGE_DAYS

\* needs_update: age is None, or age > timedelta(days=MAX_AGE_DAYS)
NeedsUpdate(s, now) ==
  LET a == CheckDatabaseAge(s, now)
  IN  IF ~a.present THEN TRUE ELSE a.age > MAX_AGE_DAYS

CacheInit ==
  /\ clock = 0
  /\ snap \in {MissingSnap,
               [exists |-> TRUE, mtime |-> 0, content |-> "valid", validated |-> TRUE]}
  /\ parts = {}
  /\ pc = [p \in Procs |-> "idle"]
  /\ partNum = [p \in Procs |-> 1]
  /\ partFiles = [p \in Procs |-> <<>>]
  /\ exc = [p \in Procs |-> "none"]
  /\ updRet = [p \in Procs |-> "none"]
  /\ fetchLog = [p \in Procs |-> <<>>]
  /\ chkExists = [p \in Procs |-> FALSE]
  /\ chkAge = [p \in Procs |-> 0]
  /\ ranExtract = [p \in Procs |-> FALSE]
  /\ opened = [p \in Procs |-> "none"]
  /\ dlFresh = [p \in Procs |-> "none"]

\* time passes
Tick ==
  /\ clock < MaxClock
  /\ clock' = clock + 1
  /\ UNCHANGED <<snap, parts, pc, partNum, partFiles, exc, updRet,
                 fetchLog, chkExists, chkAge, ranExtract, opened, dlFresh>>
  /\ UNCHANGED notCache

\* a caller enters get_connection (database.py:199)
GetConnection(p) ==
  /\ pc[p] = "idle"
  /\ pc' = [pc EXCEPT ![p] = "upd"]
  /\ UNCHANGED <<clock, snap, parts, partNum, partFiles, exc, updRet,
                 fetchLog, chkExists, chkAge, ranExtract, opened, dlFresh>>
  /\ UNCHANGED notCache

\* update_if_needed: the needs_update() test and the branch on it
UpdateIfNeeded(p) ==
  /\ pc[p] = "upd"
  /\ chkExists' = [chkExists EXCEPT ![p] = snap.exists]
  /\ chkAge' = [chkAge EXCEPT ![p] = IF snap.exists THEN clock - snap.mtime ELSE 0]
  /\ IF ~NeedsUpdate(snap, clock)
       THEN /\ updRet' = [updRet EXCEPT ![p] = "False"]
            /\ pc' = [pc EXCEPT ![p] = "exists"]
            /\ UNCHANGED <<partNum, partFiles>>
       ELSE \* download_database starts: part_files = [], part_num = 1
            /\ pc' = [pc EXCEPT ![p] = "fetch"]
            /\ partNum' = [partNum EXCEPT ![p] = 1]
            /\ partFiles' = [partFiles EXCEPT ![p] = <<>>]
            /\ UNCHANGED updRet
  /\ UNCHANGED <<clock, snap, parts, exc, fetchLog, ranExtract, opened, dlFresh>>
  /\ UNCHANGED notCache

\* the error swallowed: the loop keeps its place and asks again
RaiseForStatusRetried(p) ==
  /\ UNCHANGED <<exc, pc>>

\* requests.get raises, or response.raise_for_status() does: the exception leaves the
\* try block for the finally clause
RaiseForStatus(p) ==
  /\ exc' = [exc EXCEPT ![p] = "RequestException"]
  /\ pc' = [pc EXCEPT ![p] = "cleanup"]

\* one turn of the numbered-part loop: requests.get(cache.zNN), then 404 -> break,
\* raise_for_status, write_bytes, part_files.append, part_num += 1
FetchPart(p) ==
  /\ pc[p] = "fetch"
  /\ IF partNum[p] > MaxPartNum
       THEN \* while part_num <= 99 is false: leave the loop without a request
            /\ pc' = [pc EXCEPT ![p] = "zip"]
            /\ UNCHANGED <<parts, partNum, partFiles, exc, fetchLog>>
       ELSE \E outcome \in {"ok", "404", "fail"} :
            /\ fetchLog' = [fetchLog EXCEPT ![p] =
                               Append(@, [part |-> partNum[p], outcome |-> outcome])]
            /\ CASE outcome = "404" ->
                      /\ pc' = [pc EXCEPT ![p] = "zip"]
                      /\ UNCHANGED <<parts, partNum, partFiles, exc>>
                 [] outcome = "fail" ->
                      /\ RaiseForStatus(p)
                      /\ UNCHANGED <<parts, partNum, partFiles>>
                 [] outcome = "ok" ->
                      /\ parts' = parts \cup {partNum[p]}
                      /\ partFiles' = [partFiles EXCEPT ![p] = Append(@, partNum[p])]
                      /\ partNum' = [partNum EXCEPT ![p] = @ + 1]
                      /\ UNCHANGED <<pc, exc>>
  /\ UNCHANGED <<clock, snap, updRet, chkExists, chkAge, ranExtract, opened, dlFresh>>
  /\ UNCHANGED notCache

\* the final part taken for granted: straight on to the extraction
FetchZipSkipped(p) ==
  /\ pc[p] = "zip"
  /\ pc' = [pc EXCEPT ![p] = "x7z"]
  /\ UNCHANGED <<clock, snap, parts, partNum, partFiles, exc, updRet, fetchLog, chkExists,
                 chkAge, ranExtract, opened, dlFresh>>
  /\ UNCHANGED notCache

\* the final part: requests.get(cache.zip), raise_for_status (a 404 raises here too),
\* write_bytes, part_files.append
FetchZip(p) ==
  /\ pc[p] = "zip"
  /\ \E outcome \in {"ok", "fail"} :
       /\ fetchLog' = [fetchLog EXCEPT ![p] =
                          Append(@, [part |-> ZipPart, outcome |-> outcome])]
       /\ IF outcome = "fail"
            THEN /\ RaiseForStatus(p)
                 /\ UNCHANGED <<parts, partFiles>>
            ELSE /\ parts' = parts \cup {ZipPart}
                 /\ partFiles' = [partFiles EXCEPT ![p] = Append(@, ZipPart)]
                 /\ pc' = [pc EXCEPT ![p] = "x7z"]
                 /\ UNCHANGED exc
  /\ UNCHANGED <<clock, snap, partNum, updRet, chkExists, chkAge, ranExtract,
                 opened, dlFresh>>
  /\ UNCHANGED notCache

\* 7z can read the archive only while cache.z01, cache.zip and the parts this call
\* wrote are in the directory
ArchiveReadable(p) == 1 \in parts /\ ZipPart \in parts /\ Range(partFiles[p]) \subseteq parts

\* subprocess.run(["7z", "x", cache.z01, -o cache_dir]) starts: either it fails at once
\* (7z missing, cache.z01 missing, bad archive: BadZipFile) or it starts writing
\* cache.sqlite3 in place, at the snapshot path
ExtractBegin(p) ==
  /\ pc[p] = "x7z"
  /\ ranExtract' = [ranExtract EXCEPT ![p] = TRUE]
  /\ \/ /\ exc' = [exc EXCEPT ![p] = "BadZipFile"]
        /\ pc' = [pc EXCEPT ![p] = "cleanup"]
        /\ UNCHANGED snap
     \/ /\ ArchiveReadable(p)
        /\ snap' = [exists |-> TRUE, mtime |-> clock, content |-> "partial",
                    validated |-> FALSE]
        /\ pc' = [pc EXCEPT ![p] = "extracting"]
        /\ UNCHANGED exc
  /\ UNCHANGED <<clock, parts, partNum, partFiles, updRet, fetchLog, chkExists, chkAge,
                 opened, dlFresh>>
  /\ UNCHANGED notCache

\* 7z ends: returncode != 0 (BadZipFile, the partly written file stays), or the
\* archived database is in place, carrying the modification time 7z gives it (the
\* time of writing, or the time stored in the archive)
ExtractEnd(p) ==
  /\ pc[p] = "extracting"
  /\ \/ /\ exc' = [exc EXCEPT ![p] = "BadZipFile"]
        /\ pc' = [pc EXCEPT ![p] = "cleanup"]
        /\ UNCHANGED snap
     \/ /\ ArchiveReadable(p)
        /\ \E c \in {"valid", "notables"}, mt \in 0..clock :
             snap' = [exists |-> TRUE, mtime |-> mt, content |-> c, validated |-> FALSE]
        /\ pc' = [pc EXCEPT ![p] = "validate"]
        /\ UNCHANGED exc
  /\ UNCHANGED <<clock, parts, partNum, partFiles, updRet, fetchLog, chkExists, chkAge,
                 ranExtract, opened, dlFresh>>
  /\ UNCHANGED notCache

\* _validate_database: at least one table, else sqlite3.DatabaseError
ValidateDatabase(p) ==
  /\ pc[p] = "validate"
  /\ IF snap.exists /\ snap.content = "valid"
       THEN /\ snap' = [snap EXCEPT !.validated = TRUE]
            /\ UNCHANGED exc
       ELSE /\ exc' = [exc EXCEPT ![p] = "DatabaseError"]
            /\ UNCHANGED snap
  /\ pc' = [pc EXCEPT ![p] = "cleanup"]
  /\ UNCHANGED <<clock, parts, partNum, partFiles, updRet, fetchLog, chkExists, chkAge,
                 ranExtract, opened, dlFresh>>
  /\ UNCHANGED notCache

\* the end of download_database without the finally clause
CleanupNothing(p) ==
  /\ pc[p] = "cleanup"
  /\ dlFresh' = [dlFresh EXCEPT ![p] = IF NeedsUpdate(snap, clock) THEN "stale" ELSE "fresh"]
  /\ IF exc[p] = "none"
       THEN /\ updRet' = [updRet EXCEPT ![p] = "True"]
            /\ pc' = [pc EXCEPT ![p] = "exists"]
       ELSE /\ pc' = [pc EXCEPT ![p] = "raised"]
            /\ UNCHANGED updRet
  /\ UNCHANGED <<clock, snap, parts, partNum, partFiles, exc, fetchLog, chkExists, chkAge,
                 ranExtract, opened>>
  /\ UNCHANGED notCache

\* finally: unlink every part file of part_files; then download_database returns
\* (update_if_needed returns True) or the exception propagates to the caller
Cleanup(p) ==
  /\ pc[p] = "cleanup"
  /\ parts' = parts \ Range(partFiles[p])
  /\ dlFresh' = [dlFresh EXCEPT ![p] = IF NeedsUpdate(snap, clock) THEN "stale" ELSE "fresh"]
  /\ IF exc[p] = "none"
       THEN /\ updRet' = [updRet EXCEPT ![p] = "True"]
            /\ pc' = [pc EXCEPT ![p] = "exists"]
       ELSE /\ pc' = [pc EXCEPT ![p] = "raised"]
            /\ UNCHANGED updRet
  /\ UNCHANGED <<clock, snap, partNum, partFiles, exc, fetchLog, chkExists, chkAge,
                 ranExtract, opened>>
  /\ UNCHANGED notCache

\* the check that lets the call through without looking
ExistsCheckSkipped(p) ==
  /\ pc[p] = "exists"
  /\ pc' = [pc EXCEPT ![p] = "connect"]
  /\ UNCHANGED <<clock, snap, parts, partNum, partFiles, exc, updRet, fetchLog, chkExists,
                 chkAge, ranExtract, opened, dlFresh>>
  /\ UNCHANGED notCache

\* get_connection: if not database_path.exists(): raise FileNotFoundError
ExistsCheck(p) ==
  /\ pc[p] = "exists"
  /\ IF snap.exists
       THEN /\ pc' = [pc EXCEPT ![p] = "connect"]
            /\ UNCHANGED exc
       ELSE /\ pc' = [pc EXCEPT ![p] = "raised"]
            /\ exc' = [exc EXCEPT ![p] = "FileNotFoundError"]
  /\ UNCHANGED <<clock, snap, parts, partNum, partFiles, updRet, fetchLog, chkExists,
                 chkAge, ranExtract, opened, dlFresh>>
  /\ UNCHANGED notCache

\* what a connection opened now gets to read
Visible(s) ==
  CASE s.content = "partial" -> "partial"
    [] ~s.validated          -> "unvalidated"
    [] OTHER                 -> "validated"

\* sqlite3.connect(database_path) and the first statements on it (_init_fts5,
\* _optimize_schema; modelled step by step in SpecMig): a database with its tables
\* gives the connection back, anything else makes the engine raise
Connect(p) ==
  /\ pc[p] = "connect"
  /\ opened' = [opened EXCEPT ![p] = Visible(snap)]
  /\ IF snap.content = "valid"
       THEN /\ pc' = [pc EXCEPT ![p] = "returned"]
            /\ UNCHANGED exc
       ELSE /\ pc' = [pc EXCEPT ![p] = "raised"]
            /\ exc' = [exc EXCEPT ![p] = "sqlite3.Error"]
  /\ UNCHANGED <<clock, snap, parts, partNum, partFiles, updRet, fetchLog, chkExists,
                 chkAge, ranExtract, dlFresh>>
  /\ UNCHANGED notCache

\* the caller has the connection or the exception; the process is free for a new call
Finish(p) ==
  /\ pc[p] \in {"returned", "raised"}
  /\ pc' = [pc EXCEPT ![p] = "idle"]
  /\ exc' = [exc EXCEPT ![p] = "none"]
  /\ updRet' = [updRet EXCEPT ![p] = "none"]
  /\ fetchLog' = [fetchLog EXCEPT ![p] = <<>>]
  /\ partFiles' = [partFiles EXCEPT ![p] = <<>>]
  /\ partNum' = [partNum EXCEPT ![p] = 1]
  /\ chkExists' = [chkExists EXCEPT ![p] = FALSE]
  /\ chkAge' = [chkAge EXCEPT ![p] = 0]
  /\ ranExtract' = [ranExtract EXCEPT ![p] = FALSE]
  /\ opened' = [opened EXCEPT ![p] = "none"]
  /\ dlFresh' = [dlFresh EXCEPT ![p] = "none"]
  /\ UNCHANGED <<clock, snap, parts>>
  /\ UNCHANGED notCache



CacheNext ==
  \/ Tick
  \/ \E p \in Procs :
       \/ GetConnection(p)
       \/ UpdateIfNeeded(p)
       \/ FetchPart(p)
       \/ FetchZip(p)
       \/ ExtractBegin(p)
       \/ ExtractEnd(p)
       \/ ValidateDatabase(p)
       \/ Cleanup(p)
       \/ ExistsCheck(p)
       \/ Connect(p)
       \/ Finish(p)

(***************************************************************************)
(* Properties of the cache (SpecCache)                                     *)
(***************************************************************************)
\* process p takes a step
Moves(p) == pc'[p] # pc[p] \/ fetchLog'[p] # fetchLog[p]

\* C1: update_if_needed starts download_database if and only if the snapshot is absent
\* or its age strictly exceeds MAX_AGE_DAYS; in every other case it returns False,
\* the call issues no request and the step leaves snapshot and part files alone.
C1_EnsureFreshIffMissingOrStale ==
  /\ [](\A p \in Procs : updRet[p] = "False" => fetchLog[p] = <<>> /\ ~ranExtract[p])
  /\ [][\A p \in Procs :
          pc[p] = "upd" /\ pc'[p] # "upd" =>
            IF ~snap.exists \/ clock - snap.mtime > MAX_AGE_DAYS
              THEN pc'[p] = "fetch" /\ updRet'[p] = "none"
              ELSE /\ updRet'[p] = "False"
                   /\ fetchLog'[p] = <<>>
                   /\ snap' = snap
                   /\ parts' = parts]_vars

\* C1 witness: update_if_needed returned False on a snapshot aged exactly MAX_AGE_DAYS
C1_Witness ==
  \E p \in Procs : updRet[p] = "False" /\ chkExists[p] /\ chkAge[p] = MAX_AGE_DAYS

\* C2: get_connection never opens a snapshot that download_database is still
\* extracting or has not validated.
C2_NeverPartiallyVisible ==
  \A p \in Procs : opened[p] \in {"none", "validated"}

\* C3: when download_database ends, the snapshot is fresh (needs_update() is False) if
\* and only if the download completed and _validate_database passed; after a failed
\* validation the store is not fresh.
C3_FreshIffValidated ==
  \A p \in Procs :
    dlFresh[p] # "none" => (dlFresh[p] = "fresh" <=> updRet[p] = "True")

\* C4: a failed part fetch aborts download_database: no further request, no
\* extraction, the error reaches the caller, and no step of the call from its start
\* to the raise changes the snapshot file.
C4_FetchFailureAborts ==
  [][\A p \in Procs :
       LET failsNow == /\ fetchLog'[p] # fetchLog[p]
                       /\ fetchLog'[p] # <<>>
                       /\ fetchLog'[p][Len(fetchLog'[p])].outcome = "fail"
       IN  /\ (pc[p] \in {"fetch", "zip"} /\ Moves(p)) => snap' = snap
           /\ failsNow => /\ exc'[p] = "RequestException"
                          /\ pc'[p] = "cleanup"
                          /\ ~ranExtract'[p]
           /\ (exc[p] = "RequestException" /\ pc[p] = "cleanup" /\ Moves(p)) =>
                /\ pc'[p] = "raised"
                /\ exc'[p] = "RequestException"
                /\ fetchLog'[p] = fetchLog[p]
                /\ ~ranExtract'[p]
                /\ snap' = snap]_vars

\* C4 witness: a call raised RequestException after an earlier part had been fetched,
\* with a (stale) snapshot still in place
C4_Witness ==
  \E p \in Procs :
    /\ pc[p] = "raised" /\ exc[p] = "RequestException"
    /\ Len(fetchLog[p]) >= 2
    /\ snap.exists /\ snap.content = "valid"

(***************************************************************************)
(* The store: lookup tables and the components table                       *)
(***************************************************************************)
Rows == 1..NumRows

\* categories(id, category, subcategory): two rows of the lookup table
CategoriesTable ==
  (1 :> [category |-> "Capacitors", subcategory |-> "MLCC"]) @@
  (3 :> [category |-> "Resistors", subcategory |-> "Chip Resistor"])

\* manufacturers(id, name): two rows of the lookup table
ManufacturersTable == (1 :> [name |-> "Samsung"]) @@ (3 :> [name |-> "Yageo"])

\* components.category_id / manufacturer_id values of the modelled rows; manufacturer 5
\* has no row in manufacturers
CategoryIds == {1, 3}
ManufacturerIds == {1, 5}

\* the denormalized columns, in the order _optimize_schema adds and fills them
DenormColumns == <<"category_name", "subcategory_name", "manufacturer_name">>
\* the indexes, in the order _optimize_schema creates them
IndexNames == <<"idx_category_name", "idx_subcategory_name", "idx_manufacturer_name",
                "idx_package">>

NullColumn == [present |-> TRUE, val |-> [r \in Rows |-> "NULL"]]
NoColumn == [present |-> FALSE, val |-> [r \in Rows |-> "NULL"]]

SelectLookupSwapped(c, r) ==
  CASE c = "category_name" ->
         IF compCat[r] \in DOMAIN CategoriesTable
           THEN CategoriesTable[compCat[r]].subcategory ELSE "NULL"
    [] c = "subcategory_name" ->
         IF compCat[r] \in DOMAIN CategoriesTable
           THEN CategoriesTable[compCat[r]].category ELSE "NULL"
    [] c = "manufacturer_name" ->
         IF compMan[r] \in DOMAIN ManufacturersTable
           THEN ManufacturersTable[compMan[r]].name ELSE "NULL"

\* the correlated subquery of each backfill UPDATE (NULL when no lookup row matches)
SelectLookup(c, r) ==
  CASE c = "category_name" ->
         IF compCat[r] \in DOMAIN CategoriesTable
           THEN CategoriesTable[compCat[r]].category ELSE "NULL"
    [] c = "subcategory_name" ->
         IF compCat[r] \in DOMAIN CategoriesTable
           THEN CategoriesTable[compCat[r]].subcategory ELSE "NULL"
    [] c = "manufacturer_name" ->
         IF compMan[r] \in DOMAIN ManufacturersTable
           THEN ManufacturersTable[compMan[r]].name ELSE "NULL"

(***************************************************************************)
(* The engine: SQLite's write lock as seen through Python's sqlite3        *)
(* (DDL runs in autocommit; the first UPDATE/INSERT opens a transaction    *)
(* that holds the write lock until commit or rollback; a statement that    *)
(* needs the lock while another connection holds it waits, and raises      *)
(* "database is locked" when the connection's busy timeout runs out)       *)
(***************************************************************************)
WriteBlocked(p) == writer \notin {"none", p}

\* what the except clause of _optimize_schema lets pass
OptimizerTolerates(msg) ==
  msg \in {"already exists", "duplicate column name", "readonly database"}

\* what the except clause of _init_fts5 lets pass
FtsTolerates(msg) == msg = "already exists"

NoTx == [c \in Range(DenormColumns) |-> NoColumn]

MigFixed ==
  /\ roStore = FALSE
  /\ compCat = [r \in Rows |-> 1]
  /\ compMan = [r \in Rows |-> 1]
  /\ col = [c \in Range(DenormColumns) |-> NoColumn]
  /\ idx = {}
  /\ ftsExists = FALSE
  /\ ftsDocs = [r \in Rows |-> 0]
  /\ writer = "none"
  /\ mpc = [p \in Procs |-> "m_idle"]
  /\ mi = [p \in Procs |-> 1]
  /\ txCol = [p \in Procs |-> NoTx]
  /\ txIdx = [p \in Procs |-> {}]
  /\ txFts = [p \in Procs |-> FALSE]
  /\ merr = [p \in Procs |-> "none"]
  /\ solo = [p \in Procs |-> FALSE]
  /\ oStart = [p \in Procs |-> [col |-> NoTx, idx |-> {}, seen |-> FALSE]]

\* a freshly downloaded store (no denormalized column, no index, no components_fts),
\* writable or read-only
MigInit ==
  /\ roStore \in BOOLEAN
  /\ compCat \in [Rows -> CategoryIds]
  /\ compMan \in [Rows -> ManufacturerIds]
  /\ col = [c \in Range(DenormColumns) |-> NoColumn]
  /\ idx = {}
  /\ ftsExists = FALSE
  /\ ftsDocs = [r \in Rows |-> 0]
  /\ writer = "none"
  /\ mpc = [p \in Procs |-> "m_idle"]
  /\ mi = [p \in Procs |-> 1]
  /\ txCol = [p \in Procs |-> NoTx]
  /\ txIdx = [p \in Procs |-> {}]
  /\ txFts = [p \in Procs |-> FALSE]
  /\ merr = [p \in Procs |-> "none"]
  /\ solo = [p \in Procs |-> FALSE]
  /\ oStart = [p \in Procs |-> [col |-> NoTx, idx |-> {}, seen |-> FALSE]]

MigActive(q) == mpc[q] \notin {"m_idle", "m_returned", "m_raised"}

\* get_connection has opened the store and starts the migrations:
\* _init_fts5 when enable_fts5, then _optimize_schema
MigStart(p, enable_fts5) ==
  /\ mpc[p] = "m_idle"
  /\ mpc' = [mpc EXCEPT ![p] = IF enable_fts5 THEN "f_check" ELSE "o_check"]
  /\ solo' = [q \in Procs |->
                IF q = p THEN \A o \in Procs \ {p} : ~MigActive(o)
                ELSE IF MigActive(q) THEN FALSE ELSE solo[q]]
  /\ UNCHANGED <<roStore, compCat, compMan, col, idx, ftsExists, ftsDocs, writer,
                 mi, txCol, txIdx, txFts, merr, oStart>>
  /\ UNCHANGED notMig

(***************************************************************************)
(* _init_fts5                                                              *)
(***************************************************************************)
\* the except clause of _init_fts5: return on "already exists", else re-raise (the
\* exception leaves get_connection; the abandoned connection drops its transaction)
InitFts5Except(p, msg) ==
  /\ merr' = [merr EXCEPT ![p] = msg]
  /\ mpc' = [mpc EXCEPT ![p] = IF FtsTolerates(msg) THEN "o_check" ELSE "m_raised"]

\* SELECT name FROM sqlite_master WHERE ... name='components_fts'
InitFts5Check(p) ==
  /\ mpc[p] = "f_check"
  /\ mpc' = [mpc EXCEPT ![p] = IF ftsExists THEN "o_check" ELSE "f_create"]
  /\ UNCHANGED <<roStore, compCat, compMan, col, idx, ftsExists, ftsDocs, writer,
                 mi, txCol, txIdx, txFts, merr, solo, oStart>>
  /\ UNCHANGED notMig

\* CREATE VIRTUAL TABLE components_fts (DDL: committed by the statement itself)
InitFts5Create(p) ==
  /\ mpc[p] = "f_create"
  /\ CASE roStore ->
            InitFts5Except(p, "readonly database") /\ UNCHANGED ftsExists
       [] ~roStore /\ WriteBlocked(p) ->
            InitFts5Except(p, "database is locked") /\ UNCHANGED ftsExists
       [] ~roStore /\ ~WriteBlocked(p) /\ ftsExists ->
            InitFts5Except(p, "already exists") /\ UNCHANGED ftsExists
       [] OTHER ->
            /\ ftsExists' = TRUE
            /\ mpc' = [mpc EXCEPT ![p] = "f_insert"]
            /\ UNCHANGED merr
  /\ UNCHANGED <<roStore, compCat, compMan, col, idx, ftsDocs, writer,
                 mi, txCol, txIdx, txFts, solo, oStart>>
  /\ UNCHANGED notMig

\* INSERT INTO components_fts ... SELECT ... FROM components (opens the transaction
\* and takes the write lock)
InitFts5Insert(p) ==
  /\ mpc[p] = "f_insert"
  /\ IF WriteBlocked(p)
       THEN /\ InitFts5Except(p, "database is locked")
            /\ UNCHANGED <<writer, txFts>>
       ELSE /\ writer' = p
            /\ txFts' = [txFts EXCEPT ![p] = TRUE]
            /\ mpc' = [mpc EXCEPT ![p] = "f_commit"]
            /\ UNCHANGED merr
  /\ UNCHANGED <<roStore, compCat, compMan, col, idx, ftsExists, ftsDocs,
                 mi, txCol, txIdx, solo, oStart>>
  /\ UNCHANGED notMig

\* conn.commit() of _init_fts5: one index entry per components row becomes visible
InitFts5Commit(p) ==
  /\ mpc[p] = "f_commit"
  /\ ftsDocs' = [r \in Rows |-> ftsDocs[r] + (IF txFts[p] THEN 1 ELSE 0)]
  /\ txFts' = [txFts EXCEPT ![p] = FALSE]
  /\ writer' = IF writer = p THEN "none" ELSE writer
  /\ mpc' = [mpc EXCEPT ![p] = "o_check"]
  /\ UNCHANGED <<roStore, compCat, compMan, col, idx, ftsExists,
                 mi, txCol, txIdx, merr, solo, oStart>>
  /\ UNCHANGED notMig

(***************************************************************************)
(* _optimize_schema                                                        *)
(***************************************************************************)
PresentColumns == {c \in Range(DenormColumns) : col[c].present}

\* the except clause of _optimize_schema: conn.rollback(), then return when the
\* message is one of the tolerated ones, else re-raise
OptimizeExcept(p, msg) ==
  /\ merr' = [merr EXCEPT ![p] = msg]
  /\ txCol' = [txCol EXCEPT ![p] = NoTx]
  /\ txIdx' = [txIdx EXCEPT ![p] = {}]
  /\ writer' = IF writer = p THEN "none" ELSE writer
  /\ mpc' = [mpc EXCEPT ![p] = IF OptimizerTolerates(msg) THEN "m_returned"
                               ELSE "m_raised"]

\* PRAGMA table_info(components); if "category_name" in columns: return
OptimizeCheck(p) ==
  /\ mpc[p] = "o_check"
  /\ oStart' = [oStart EXCEPT ![p] = [col |-> col, idx |-> idx, seen |-> TRUE]]
  /\ IF col["category_name"].present
       THEN /\ mpc' = [mpc EXCEPT ![p] = "m_returned"]
            /\ UNCHANGED mi
       ELSE /\ mpc' = [mpc EXCEPT ![p] = "o_alter"]
            /\ mi' = [mi EXCEPT ![p] = 1]
  /\ UNCHANGED <<roStore, compCat, compMan, col, idx, ftsExists, ftsDocs, writer,
                 txCol, txIdx, txFts, merr, solo>>
  /\ UNCHANGED notMig

\* ALTER TABLE components ADD COLUMN <c> TEXT (DDL: committed by the statement itself)
OptimizeAlter(p) ==
  /\ mpc[p] = "o_alter"
  /\ LET c == DenormColumns[mi[p]]
     IN  CASE roStore ->
                OptimizeExcept(p, "readonly database") /\ UNCHANGED <<col, mi>>
           [] ~roStore /\ WriteBlocked(p) ->
                OptimizeExcept(p, "database is locked") /\ UNCHANGED <<col, mi>>
           [] ~roStore /\ ~WriteBlocked(p) /\ col[c].present ->
                OptimizeExcept(p, "duplicate column name") /\ UNCHANGED <<col, mi>>
           [] OTHER ->
                /\ col' = [col EXCEPT ![c] = NullColumn]
                /\ IF mi[p] < Len(DenormColumns)
                     THEN mi' = [mi EXCEPT ![p] = @ + 1] /\ UNCHANGED mpc
                     ELSE mi' = [mi EXCEPT ![p] = 1] /\
                          mpc' = [mpc EXCEPT ![p] = "o_update"]
                /\ UNCHANGED <<writer, txCol, txIdx, merr>>
  /\ UNCHANGED <<roStore, compCat, compMan, idx, ftsExists, ftsDocs, txFts, solo, oStart>>
  /\ UNCHANGED notMig

\* UPDATE components SET <c> = (SELECT ... WHERE id = components.<fk>); the first one
\* opens the transaction and takes the write lock
OptimizeUpdate(p) ==
  /\ mpc[p] = "o_update"
  /\ LET c == DenormColumns[mi[p]]
     IN  IF WriteBlocked(p)
           THEN OptimizeExcept(p, "database is locked") /\ UNCHANGED mi
           ELSE /\ writer' = p
                /\ txCol' = [txCol EXCEPT ![p][c] =
                               [present |-> TRUE, val |-> [r \in Rows |-> SelectLookup(c, r)]]]
                /\ IF mi[p] < Len(DenormColumns)
                     THEN mi' = [mi EXCEPT ![p] = @ + 1] /\ UNCHANGED mpc
                     ELSE mi' = [mi EXCEPT ![p] = 1] /\
                          mpc' = [mpc EXCEPT ![p] = "o_index"]
                /\ UNCHANGED <<txIdx, merr>>
  /\ UNCHANGED <<roStore, compCat, compMan, col, idx, ftsExists, ftsDocs, txFts, solo,
                 oStart>>
  /\ UNCHANGED notMig

\* CREATE INDEX IF NOT EXISTS <name> ON components(...), inside the open transaction
OptimizeIndex(p) ==
  /\ mpc[p] = "o_index"
  /\ txIdx' = [txIdx EXCEPT ![p] = IF IndexNames[mi[p]] \in idx THEN @
                                   ELSE @ \cup {IndexNames[mi[p]]}]
  /\ IF mi[p] < Len(IndexNames)
       THEN mi' = [mi EXCEPT ![p] = @ + 1] /\ UNCHANGED mpc
       ELSE mi' = [mi EXCEPT ![p] = 1] /\ mpc' = [mpc EXCEPT ![p] = "o_commit"]
  /\ UNCHANGED <<roStore, compCat, compMan, col, idx, ftsExists, ftsDocs, writer,
                 txCol, txFts, merr, solo, oStart>>
  /\ UNCHANGED notMig

\* conn.commit() of _optimize_schema: the backfilled values and the indexes become
\* visible, the write lock is released
OptimizeCommit(p) ==
  /\ mpc[p] = "o_commit"
  /\ col' = [c \in Range(DenormColumns) |->
               IF txCol[p][c].present THEN txCol[p][c] ELSE col[c]]
  /\ idx' = idx \cup txIdx[p]
  /\ txCol' = [txCol EXCEPT ![p] = NoTx]
  /\ txIdx' = [txIdx EXCEPT ![p] = {}]
  /\ writer' = IF writer = p THEN "none" ELSE writer
  /\ mpc' = [mpc EXCEPT ![p] = "m_returned"]
  /\ UNCHANGED <<roStore, compCat, compMan, ftsExists, ftsDocs, mi, txFts, merr, solo,
                 oStart>>
  /\ UNCHANGED notMig

\* get_connection has returned the connection or raised; the process may call again
MigFinish(p) ==
  /\ mpc[p] \in {"m_returned", "m_raised"}
  /\ mpc' = [mpc EXCEPT ![p] = "m_idle"]
  /\ merr' = [merr EXCEPT ![p] = "none"]
  /\ mi' = [mi EXCEPT ![p] = 1]
  /\ txFts' = [txFts EXCEPT ![p] = FALSE]
  /\ solo' = [solo EXCEPT ![p] = FALSE]
  /\ oStart' = [oStart EXCEPT ![p] = [col |-> NoTx, idx |-> {}, seen |-> FALSE]]
  /\ UNCHANGED <<roStore, compCat, compMan, col, idx, ftsExists, ftsDocs, writer,
                 txCol, txIdx>>
  /\ UNCHANGED notMig

MigNext ==
  \E p \in Procs :
    \/ \E enable_fts5 \in BOOLEAN : MigStart(p, enable_fts5)
    \/ InitFts5Check(p)
    \/ InitFts5Create(p)
    \/ InitFts5Insert(p)
    \/ InitFts5Commit(p)
    \/ OptimizeCheck(p)
    \/ OptimizeAlter(p)
    \/ OptimizeUpdate(p)
    \/ OptimizeIndex(p)
    \/ OptimizeCommit(p)
    \/ MigFinish(p)

(***************************************************************************)
(* ComponentSearch.search                                                  *)
(***************************************************************************)
Lcscs == 1..NumComps

\* the price column: JSON text, an array of {qFrom, price} objects; hasQ is FALSE for
\* a tier object without the qFrom key
Tier(hasQ, price) == [hasQ |-> hasQ, price |-> price]
PriceJson(tiers) == [json |-> "ok", tiers |-> tiers]
MalformedJson == [json |-> "malformed", tiers |-> <<>>]

\* the rows the modelled stores are made of
RowPool ==
  {[basic |-> b, stock |-> st, price |-> PriceJson(<<Tier(TRUE, pr)>>)] :
      b \in {0, 1}, st \in {0, 3}, pr \in {1, 2}}
  \cup {[basic |-> 0, stock |-> 3, price |-> PriceJson(<<>>)],
        [basic |-> 1, stock |-> 3, price |-> PriceJson(<<Tier(FALSE, 1)>>)],
        [basic |-> 1, stock |-> 3, price |-> MalformedJson]}

\* QueryParams of the modelled calls
NoMaxPrice == [set |-> FALSE, v |-> 0]
ParamsPool ==
  [basic_only : BOOLEAN, in_stock_only : BOOLEAN, max_price : {NoMaxPrice, [set |-> TRUE, v |-> 1]},
   limit : {0, 2, 100}, offset : {0, 1}]

\* CAST(json_extract(c.price, '$[0].price') AS REAL): NULL for an empty array
PriceIsNull(row) == row.price.tiers = <<>>
FirstTierPrice(row) == row.price.tiers[1].price

\* the WHERE terms on plain columns (basic_only, in_stock_only)
WherePlain(row, params) ==
  /\ params.basic_only => row.basic = 1
  /\ params.in_stock_only => row.stock > 0

\* the WHERE term on the price: CAST(json_extract(...) AS REAL) <= ? (NULL is not <= ?)
WherePrice(row, params) ==
  params.max_price.set => (~PriceIsNull(row) /\ FirstTierPrice(row) <= params.max_price.v)

OrderByStockAsc(a, b) ==
  \/ a.basic > b.basic
  \/ /\ a.basic = b.basic
     /\ \/ a.stock < b.stock
        \/ /\ a.stock = b.stock
           /\ \/ PriceIsNull(a)
              \/ ~PriceIsNull(b) /\ FirstTierPrice(a) <= FirstTierPrice(b)

\* ORDER BY c.basic DESC, c.stock DESC, CAST(json_extract(c.price,'$[0].price') AS REAL)
\* ASC: row a may come before row b (NULL sorts first in ascending order)
OrderBy(a, b) ==
  \/ a.basic > b.basic
  \/ /\ a.basic = b.basic
     /\ \/ a.stock > b.stock
        \/ /\ a.stock = b.stock
           /\ \/ PriceIsNull(a)
              \/ ~PriceIsNull(b) /\ FirstTierPrice(a) <= FirstTierPrice(b)

RECURSIVE Perms(_)
Perms(S) ==
  IF S = {} THEN {<<>>}
  ELSE UNION {{<<x>> \o t : t \in Perms(S \ {x})} : x \in S}

\* the row orders the engine may deliver: every order that respects ORDER BY; rows
\* that tie on the three sort keys come in any order
EngineOrders(S) ==
  {o \in Perms(S) : \A i \in 1..(Len(o) - 1) : OrderBy(db[o[i]], db[o[i + 1]])}

Min(a, b) == IF a < b THEN a ELSE b
Max(a, b) == IF a > b THEN a ELSE b

\* the limit handed to the engine as it came
EffectiveLimitRaw(params) == params.limit

\* limit = max(1, min(params.limit, 100))
EffectiveLimit(params) == Max(1, Min(params.limit, 100))

\* LIMIT ? OFFSET ?
LimitOffset(o, limit, offset) ==
  SubSeq(o, Max(offset, 0) + 1, Min(Len(o), Max(offset, 0) + limit))

\* Component.from_db_row raises (KeyError) on a tier without qFrom
Hydratable(row) == \A i \in DOMAIN row.price.tiers : row.price.tiers[i].hasQ

\* Component.from_db_row, and Component.price (0.0 without tiers)
FromDbRow(k) ==
  [lcsc |-> <<"C", k>>,
   basic |-> db[k].basic # 0,
   stock |-> db[k].stock,
   price |-> IF db[k].price.tiers = <<>> THEN 0 ELSE db[k].price.tiers[1].price]

RECURSIVE HydrateAll(_)
\* for row in cursor.fetchall(): try from_db_row, except Exception: continue
HydrateAll(o) ==
  IF o = <<>> THEN <<>>
  ELSE IF Hydratable(db[o[1]]) THEN <<FromDbRow(o[1])>> \o HydrateAll(Tail(o))
       ELSE HydrateAll(Tail(o))

NoResult == [status |-> "none", page |-> <<>>]

\* conn.execute(query) + hydration. json_extract raises "malformed JSON" on a row whose
\* price is not JSON as soon as the row gets as far as the price terms.
Execute(params, result) ==
  LET plain == {k \in Lcscs : WherePlain(db[k], params)}
  IN  IF \E k \in plain : db[k].price.json = "malformed"
        THEN result = [status |-> "error", page |-> <<>>]
        ELSE \E o \in EngineOrders({k \in plain : WherePrice(db[k], params)}) :
               result = [status |-> "ok",
                         page |-> HydrateAll(LimitOffset(o, EffectiveLimit(params),
                                                         params.offset))]

SearchInit ==
  /\ db \in [Lcscs -> RowPool]
  /\ query = [set |-> FALSE]
  /\ res = NoResult
  /\ res0 = NoResult
  /\ query0 = [set |-> FALSE]

SearchFixed ==
  /\ db = [k \in Lcscs |-> [basic |-> 0, stock |-> 0, price |-> PriceJson(<<>>)]]
  /\ query = [set |-> FALSE]
  /\ res = NoResult
  /\ res0 = NoResult
  /\ query0 = [set |-> FALSE]

\* a caller runs search(params)
Search(params) ==
  /\ ~query.set
  /\ query' = [set |-> TRUE, params |-> params]
  /\ Execute(params, res')
  /\ res0' = NoResult
  /\ query0' = [set |-> FALSE]
  /\ UNCHANGED db
  /\ UNCHANGED notSearch

\* the same search(params) once more, the store unmodified
SearchAgain ==
  /\ query.set
  /\ res0 = NoResult
  /\ Execute(query.params, res')
  /\ res0' = res
  /\ query0' = query
  /\ UNCHANGED <<db, query>>
  /\ UNCHANGED notSearch

\* the caller is done with the results
SearchDone ==
  /\ query.set
  /\ query' = [set |-> FALSE]
  /\ res' = NoResult
  /\ res0' = NoResult
  /\ query0' = [set |-> FALSE]
  /\ UNCHANGED db
  /\ UNCHANGED notSearch

SearchNext ==
  \/ \E params \in ParamsPool : Search(params)
  \/ SearchAgain
  \/ SearchDone

\* the caller asks for the page after the one it holds: search() with the same
\* QueryParams but offset advanced by the limit it asked for
SearchNextPage ==
  /\ query.set
  /\ res0 = NoResult
  /\ LET params == [query.params EXCEPT !.offset = @ + query.params.limit]
     IN  /\ Execute(params, res')
         /\ query' = [set |-> TRUE, params |-> params]
  /\ res0' = res
  /\ query0' = query
  /\ UNCHANGED db
  /\ UNCHANGED notSearch

\* the stores of the paging scenarios: rows that tie on every sort key, rows that do
\* not, and a row that hydration drops
PageRowPool ==
  {[basic |-> 1, stock |-> 3, price |-> PriceJson(<<Tier(TRUE, 1)>>)],
   [basic |-> 1, stock |-> 3, price |-> PriceJson(<<Tier(TRUE, 2)>>)],
   [basic |-> 0, stock |-> 0, price |-> PriceJson(<<Tier(TRUE, 1)>>)],
   [basic |-> 1, stock |-> 3, price |-> PriceJson(<<Tier(FALSE, 1)>>)]}

PageInit ==
  /\ db \in [Lcscs -> PageRowPool]
  /\ query = [set |-> FALSE]
  /\ res = NoResult
  /\ res0 = NoResult
  /\ query0 = [set |-> FALSE]

PageNext ==
  \/ \E params \in ParamsPool : Search(params)
  \/ SearchNextPage
  \/ SearchDone

(***************************************************************************)
(* Text values. A text is a sequence of one-character strings, so that     *)
(* LIKE, startswith and int() work on its characters.                      *)
(***************************************************************************)
\* SQLite's LIKE folds the case of ASCII letters
Lower(ch) ==
  CASE ch = "C" -> "c"
    [] ch = "S" -> "s"
    [] ch = "R" -> "r"
    [] ch = "Y" -> "y"
    [] ch = "M" -> "m"
    [] ch = "X" -> "x"
    [] OTHER -> ch

RECURSIVE Like(_, _)
\* text LIKE pattern: % matches any run of characters, _ any one character, every
\* other character itself, letters without regard to case
Like(pattern, text) ==
  IF pattern = <<>> THEN text = <<>>
  ELSE IF Head(pattern) = "%"
         THEN Like(Tail(pattern), text) \/ (text # <<>> /\ Like(pattern, Tail(text)))
  ELSE IF text = <<>> THEN FALSE
  ELSE IF Head(pattern) = "_" THEN Like(Tail(pattern), Tail(text))
  ELSE Lower(Head(pattern)) = Lower(Head(text)) /\ Like(Tail(pattern), Tail(text))

\* f"%{value}%"
Wrap(value) == <<"%">> \o value \o <<"%">>

\* an Optional value: None, or a value
None == [set |-> FALSE]
Some(v) == [set |-> TRUE, v |-> v]

(***************************************************************************)
(* The store as search() and search_by_lcsc() read it: components joined   *)
(* with categories and manufacturers                                       *)
(***************************************************************************)
\* categories(id, category, subcategory), with the names as texts
CategoryNames ==
  (1 :> [category |-> <<"C", "a", "p">>, subcategory |-> <<"M", "l">>]) @@
  (3 :> [category |-> <<"R", "e", "s">>, subcategory |-> <<"C", "h">>])

\* manufacturers(id, name), with the names as texts
ManufacturerNames ==
  (1 :> [name |-> <<"S", "a", "m">>]) @@ (3 :> [name |-> <<"Y", "a", "g">>])

\* the rows the stores of the filter scenarios are made of: the columns search() reads
\* (price as in RowPool), and of extra.attributes the Package text and the
\* Capacitance value (None when the row has none)
FullRowPool ==
  {[cat |-> 1, man |-> 1, mfr |-> <<"X", "7">>, basic |-> 1, stock |-> 3,
    price |-> PriceJson(<<Tier(TRUE, 1)>>), package |-> "0603",
    cap |-> Some([value |-> 100, unit |-> "nF"])],
   [cat |-> 1, man |-> 3, mfr |-> <<"X", "7">>, basic |-> 0, stock |-> 0,
    price |-> PriceJson(<<Tier(TRUE, 2)>>), package |-> "0805",
    cap |-> Some([value |-> 1, unit |-> "uF"])],
   [cat |-> 3, man |-> 1, mfr |-> <<"X", "7">>, basic |-> 0, stock |-> 3,
    price |-> PriceJson(<<Tier(TRUE, 2)>>), package |-> "0603",
    cap |-> None],
   [cat |-> 3, man |-> 5, mfr |-> <<"X", "7">>, basic |-> 1, stock |-> 1,
    price |-> PriceJson(<<Tier(TRUE, 1)>>), package |-> "0805",
    cap |-> Some([value |-> 10, unit |-> "xx"])],
   [cat |-> 7, man |-> 1, mfr |-> <<"X", "7">>, basic |-> 1, stock |-> 3,
    price |-> PriceJson(<<>>), package |-> "0603",
    cap |-> Some([value |-> 100, unit |-> "nF"])]}

\* LEFT JOIN categories cat ON c.category_id = cat.id: NULL (None) without a match
JoinCategory(row) ==
  IF row.cat \in DOMAIN CategoryNames THEN Some(CategoryNames[row.cat].category) ELSE None
JoinSubcategory(row) ==
  IF row.cat \in DOMAIN CategoryNames THEN Some(CategoryNames[row.cat].subcategory) ELSE None
\* LEFT JOIN manufacturers man ON c.manufacturer_id = man.id
JoinManufacturer(row) ==
  IF row.man \in DOMAIN ManufacturerNames THEN Some(ManufacturerNames[row.man].name) ELSE None

(***************************************************************************)
(* QueryParams and the statement search() builds from it                   *)
(***************************************************************************)
\* QueryParams(): the defaults of the dataclass
DefaultParams ==
  [category |-> None, subcategory |-> None, manufacturer |-> None,
   description_contains |-> None, basic_only |-> FALSE, in_stock_only |-> TRUE,
   min_stock |-> 0, max_price |-> None, package |-> None, attribute_ranges |-> None,
   offset |-> 0, limit |-> 20]

\* "if params.category:" and the like: None and the empty text are both false
Truthy(opt) == opt.set /\ opt.v # <<>>

\* the statement pieces; a piece is a sequence of strings (one string for a literal)
SelectFrom == <<"SELECT ... FROM components c LEFT JOIN categories cat ... LEFT JOIN manufacturers man ... WHERE 1=1">>
CategoryLike == <<"AND cat.category LIKE ?">>
SubcategoryLike == <<"AND cat.subcategory LIKE ?">>
ManufacturerLike == <<"AND man.name LIKE ?">>
DescriptionLike == <<"AND (c.mfr LIKE ? OR json_extract(c.extra, '$.description') LIKE ?)">>
BasicIsOne == <<"AND c.basic = 1">>
StockPositive == <<"AND c.stock > 0">>
StockAtLeast == <<"AND c.stock >= ?">>
PriceAtMost == <<"AND CAST(json_extract(c.price, '$[0].price') AS REAL) <= ?">>
OrderByClause == <<"ORDER BY c.basic DESC, c.stock DESC, CAST(json_extract(c.price, '$[0].price') AS REAL) ASC">>
LimitOffsetClause == <<"LIMIT ? OFFSET ?">>

\* a piece of the statement with the parameters bound to it
Clause(piece, args) == [text |-> <<piece>>, args |-> args]
NoClause == [text |-> <<>>, args |-> <<>>]

\* the value spliced into the statement text instead of bound
CategoryClauseInline(value) ==
  Clause(<<"AND cat.category LIKE '">> \o Wrap(value) \o <<"'">>, <<>>)

\* query_parts.append("AND cat.category LIKE ?"); query_args.append(f"%{params.category}%")
CategoryClause(value) == Clause(CategoryLike, <<Wrap(value)>>)

RECURSIVE JoinClauses(_)
\* " ".join(query_parts), and query_args in the same order
JoinClauses(cs) ==
  IF cs = <<>> THEN NoClause
  ELSE LET rest == JoinClauses(Tail(cs))
       IN  [text |-> Head(cs).text \o rest.text, args |-> Head(cs).args \o rest.args]

\* search(): query_parts and query_args as the sequence of if-blocks builds them
BuildQuery(params) ==
  LET cs == << Clause(SelectFrom, <<>>),
               IF Truthy(params.category) THEN CategoryClause(params.category.v)
                 ELSE NoClause,
               IF Truthy(params.subcategory)
                 THEN Clause(SubcategoryLike, <<Wrap(params.subcategory.v)>>) ELSE NoClause,
               IF Truthy(params.manufacturer)
                 THEN Clause(ManufacturerLike, <<Wrap(params.manufacturer.v)>>) ELSE NoClause,
               IF Truthy(params.description_contains)
                 THEN Clause(DescriptionLike, <<Wrap(params.description_contains.v),
                                                Wrap(params.description_contains.v)>>)
                 ELSE NoClause,
               IF params.basic_only THEN Clause(BasicIsOne, <<>>) ELSE NoClause,
               IF params.in_stock_only THEN Clause(StockPositive, <<>>) ELSE NoClause,
               IF params.min_stock > 0 THEN Clause(StockAtLeast, <<params.min_stock>>)
                 ELSE NoClause,
               IF params.max_price.set THEN Clause(PriceAtMost, <<params.max_price.v>>)
                 ELSE NoClause,
               \* params.package, params.attributes, params.attribute_ranges: no clause
               Clause(OrderByClause, <<>>),
               Clause(LimitOffsetClause, <<EffectiveLimit(params), params.offset>>) >>
  IN  JoinClauses(cs)

(***************************************************************************)
(* The engine running a statement of search()                              *)
(***************************************************************************)
\* x LIKE ? on a joined column: NULL LIKE ? is not true
NullableLike(pattern, opt) == opt.set /\ Like(pattern, opt.v)

RECURSIVE WhereHolds(_, _, _)
\* the WHERE terms of the statement on one row, the bound parameters taken in order;
\* the rows modelled carry no description in extra, so only c.mfr can match there
WhereHolds(row, text, args) ==
  IF text = <<>> THEN TRUE
  ELSE LET piece == Head(text)
           rest == Tail(text)
       IN  CASE piece = CategoryLike ->
                  NullableLike(args[1], JoinCategory(row)) /\ WhereHolds(row, rest, Tail(args))
             [] piece = SubcategoryLike ->
                  NullableLike(args[1], JoinSubcategory(row)) /\ WhereHolds(row, rest, Tail(args))
             [] piece = ManufacturerLike ->
                  NullableLike(args[1], JoinManufacturer(row)) /\ WhereHolds(row, rest, Tail(args))
             [] piece = DescriptionLike ->
                  Like(args[1], row.mfr) /\ WhereHolds(row, rest, Tail(Tail(args)))
             [] piece = BasicIsOne -> row.basic = 1 /\ WhereHolds(row, rest, args)
             [] piece = StockPositive -> row.stock > 0 /\ WhereHolds(row, rest, args)
             [] piece = StockAtLeast ->
                  row.stock >= args[1] /\ WhereHolds(row, rest, Tail(args))
             [] piece = PriceAtMost ->
                  /\ ~PriceIsNull(row) /\ FirstTierPrice(row) <= args[1]
                  /\ WhereHolds(row, rest, Tail(args))
             [] OTHER -> WhereHolds(row, rest, args)

\* LIMIT ? OFFSET ? as the engine applies it: a negative LIMIT is no limit, a negative
\* OFFSET is 0
EngineLimit(o, limit, offset) ==
  IF limit < 0 THEN SubSeq(o, Max(offset, 0) + 1, Len(o))
  ELSE LimitOffset(o, limit, offset)

(***************************************************************************)
(* External ids and hydration                                              *)
(***************************************************************************)
RECURSIVE DigitsOf(_)
\* str(n) of a non-negative int: its decimal digits
DigitsOf(n) == IF n < 10 THEN <<n>> ELSE DigitsOf(n \div 10) \o <<n % 10>>

RECURSIVE IntOf(_)
\* int(s) of a text of decimal digits
IntOf(digits) ==
  IF digits = <<>> THEN 0
  ELSE 10 * IntOf(SubSeq(digits, 1, Len(digits) - 1)) + digits[Len(digits)]

\* f"C{lcsc_value}"
LcscStr(k) == [letter |-> "C", digits |-> DigitsOf(k)]

\* Component.from_db_row on a row of the joined statement (and Component.price)
FromJoinedRow(k) ==
  [lcsc |-> LcscStr(k),
   category |-> JoinCategory(db[k]),
   subcategory |-> JoinSubcategory(db[k]),
   manufacturer |-> JoinManufacturer(db[k]),
   mfr |-> db[k].mfr,
   basic |-> db[k].basic # 0,
   stock |-> db[k].stock,
   price |-> IF db[k].price.tiers = <<>> THEN 0 ELSE db[k].price.tiers[1].price]

RECURSIVE HydrateJoined(_)
\* for row in cursor.fetchall(): try from_db_row, except Exception: continue
HydrateJoined(o) ==
  IF o = <<>> THEN <<>>
  ELSE IF Hydratable(db[o[1]]) THEN <<FromJoinedRow(o[1])>> \o HydrateJoined(Tail(o))
       ELSE HydrateJoined(Tail(o))

\* conn.execute(query, query_args), fetchall and the hydration loop of search(): the
\* results the call may return (one for each row order the engine may deliver)
RunSearch(statement) ==
  LET n == Len(statement.args)
      hit == {k \in Lcscs : WhereHolds(db[k], statement.text, statement.args)}
  IN  {[status |-> "ok",
        page |-> HydrateJoined(EngineLimit(o, statement.args[n - 1], statement.args[n]))] :
         o \in EngineOrders(hit)}

(***************************************************************************)
(* The calls: search(), search_by_lcsc(), JLCTools.search_components()     *)
(***************************************************************************)
NoStmt == [text |-> <<>>, args |-> <<>>]
NoEcho == [set |-> FALSE]
NoLibs == [set |-> FALSE]

\* the QueryParams of the modelled search() calls: each group varies some fields of
\* QueryParams() and leaves the others at their defaults
AvailabilityParams ==
  {[DefaultParams EXCEPT !.manufacturer = m, !.basic_only = b, !.in_stock_only = i,
                         !.min_stock = ms, !.max_price = mp] :
     m \in {None, Some(<<"S", "a">>), Some(<<"S", "_", "m">>)},
     b \in BOOLEAN, i \in BOOLEAN, ms \in {0, 2}, mp \in {None, Some(1)}}
CategoryParams ==
  {[DefaultParams EXCEPT !.category = c, !.subcategory = sc, !.in_stock_only = FALSE] :
     c \in {None, Some(<<"C", "a", "p">>), Some(<<"C", "a">>), Some(<<"c", "a", "p">>),
            Some(<<>>)},
     sc \in {None, Some(<<"M", "l">>)}}
CapacitanceRanges ==
  {[attr |-> "Capacitance", min |-> Some([value |-> 50, unit |-> "nF"]),
    max |-> Some([value |-> 150, unit |-> "nF"])],
   [attr |-> "Capacitance", min |-> None, max |-> Some([value |-> 500, unit |-> "nF"])]}
PackageParams ==
  {[DefaultParams EXCEPT !.package = pk, !.attribute_ranges = ar, !.in_stock_only = i] :
     pk \in {None, Some("0603"), Some("9999")},
     ar \in {None} \cup {Some(r) : r \in CapacitanceRanges},
     i \in BOOLEAN}
PagingParams ==
  {[DefaultParams EXCEPT !.limit = l, !.offset = o, !.in_stock_only = FALSE] :
     l \in {0 - 1, 0, 1, 2, 500}, o \in {0, 1, 5}}
DescriptionParams ==
  {[DefaultParams EXCEPT !.description_contains = d] :
     d \in {Some(<<"X", "7">>), Some(<<"z">>)}}
QueryPool ==
  AvailabilityParams \cup CategoryParams \cup PackageParams \cup PagingParams
    \cup DescriptionParams

\* the lcsc_id arguments of the modelled search_by_lcsc() calls: a letter and digits
IdPool ==
  {[letter |-> l, digits |-> d] :
     l \in {"C", "D"}, d \in {<<1>>, <<2>>, <<9>>, <<0, 1>>, <<1, 2>>}}

\* a caller runs search(params)
SearchQuery(params) ==
  /\ ~query.set
  /\ query' = [set |-> TRUE, op |-> "search", params |-> params]
  /\ stmt' = BuildQuery(params)
  /\ res' \in RunSearch(BuildQuery(params))
  /\ echo' = NoEcho
  /\ libs' = NoLibs
  /\ UNCHANGED <<db, res0, query0>>
  /\ UNCHANGED notQuery

LookupByLcsc == <<"SELECT ... FROM components c LEFT JOIN categories cat ... LEFT JOIN manufacturers man ... WHERE c.lcsc = ?">>

\* search_by_lcsc(lcsc_id): int() of the text after a leading "C", else of the whole
\* text (ValueError when it is not a number); the lookup; None without a row, else
\* from_db_row outside any try
SearchByLcsc(id) ==
  /\ ~query.set
  /\ query' = [set |-> TRUE, op |-> "search_by_lcsc", id |-> id]
  /\ IF id.letter # "C"
       THEN /\ res' = [status |-> "ValueError", page |-> <<>>]
            /\ stmt' = NoStmt
       ELSE LET lcsc_int == IntOf(id.digits)
            IN  /\ stmt' = [text |-> <<LookupByLcsc>>, args |-> <<lcsc_int>>]
                /\ res' = IF lcsc_int \notin Lcscs THEN [status |-> "ok", page |-> <<>>]
                          ELSE IF Hydratable(db[lcsc_int])
                                 THEN [status |-> "ok", page |-> <<FromJoinedRow(lcsc_int)>>]
                          ELSE [status |-> "KeyError", page |-> <<>>]
  /\ echo' = NoEcho
  /\ libs' = NoLibs
  /\ UNCHANGED <<db, res0, query0>>
  /\ UNCHANGED notQuery

\* the characters of an id: its letter, then str() of each digit
DigitChar == <<"0", "1", "2", "3", "4", "5", "6", "7", "8", "9">>
IdText(id) == <<id.letter>> \o [i \in 1..Len(id.digits) |-> DigitChar[id.digits[i] + 1]]

\* f"C{comp.lcsc}": the letter C, then the text of the record's lcsc field as it is
FmtC(comp) == <<"C">> \o IdText(comp.lcsc)

\* the values of validation_candidates of the modelled calls
CandidateCounts == {1, 2, 20}

\* JLCTools.search_components(offset=, limit=, validate_libraries=,
\* validation_candidates=): QueryParams with offset=max(0, offset) and
\* limit=max(1, min(limit, 100)), search(); with validate_libraries and results: the
\* first candidates, the Ultralibrarian check of each (found: any of them), the ids of
\* the others handed to get_validated_libraries (which returns any of the ids it was
\* given), and the results cut down to the records whose f"C{comp.lcsc}" is in
\* validated_lcsc_ids; then the dictionary with "offset" and "limit"
SearchComponents(offset, limit, validate_libraries, validation_candidates) ==
  /\ ~query.set
  /\ LET params == [DefaultParams EXCEPT !.offset = Max(0, offset),
                                         !.limit = Max(1, Min(limit, 100))]
     IN  /\ query' = [set |-> TRUE, op |-> "search_components", offset |-> offset,
                      limit |-> limit, params |-> params]
         /\ echo' = [set |-> TRUE, offset |-> params.offset, limit |-> params.limit]
         /\ stmt' = BuildQuery(params)
         /\ \E r \in RunSearch(BuildQuery(params)) :
               IF validate_libraries /\ r.page # <<>>
                 THEN LET candidates ==
                            SubSeq(r.page, 1, Min(Len(r.page), validation_candidates))
                      IN  \E onUltra \in SUBSET DOMAIN candidates :
                            LET ultralibrarian_available ==
                                  {FmtC(candidates[i]) : i \in onUltra}
                                remaining_candidates ==
                                  SelectSeq([i \in DOMAIN candidates |-> FmtC(candidates[i])],
                                            LAMBDA id : id \notin ultralibrarian_available)
                            IN  \E validated_libs \in SUBSET Range(remaining_candidates) :
                                  LET validated_lcsc_ids ==
                                        ultralibrarian_available \cup validated_libs
                                  IN  /\ libs' = [set |-> TRUE, found |-> r.page,
                                                  candidates |-> candidates,
                                                  handed |-> remaining_candidates,
                                                  validated |-> validated_lcsc_ids]
                                      /\ res' = [status |-> "ok",
                                                 page |-> SelectSeq(r.page,
                                                   LAMBDA c : FmtC(c) \in validated_lcsc_ids)]
                 ELSE /\ res' = r
                      /\ libs' = NoLibs
  /\ UNCHANGED <<db, res0, query0>>
  /\ UNCHANGED notQuery

\* the caller is done with the answer
QueryDone ==
  /\ query.set
  /\ query' = [set |-> FALSE]
  /\ res' = NoResult
  /\ stmt' = NoStmt
  /\ echo' = NoEcho
  /\ libs' = NoLibs
  /\ UNCHANGED <<db, res0, query0>>
  /\ UNCHANGED notQuery

QueryInit ==
  /\ db \in [Lcscs -> FullRowPool]
  /\ query = [set |-> FALSE]
  /\ res = NoResult
  /\ res0 = NoResult
  /\ query0 = [set |-> FALSE]
  /\ stmt = NoStmt
  /\ echo = NoEcho
  /\ libs = NoLibs

QueryFixed ==
  /\ stmt = NoStmt
  /\ echo = NoEcho
  /\ libs = NoLibs

QueryNext ==
  \/ \E params \in QueryPool : SearchQuery(params)
  \/ \E id \in IdPool : SearchByLcsc(id)
  \/ \E offset \in {0 - 1, 0, 1}, limit \in {0 - 1, 20, 500}, validate_libraries \in BOOLEAN,
        validation_candidates \in CandidateCounts :
       SearchComponents(offset, limit, validate_libraries, validation_candidates)
  \/ QueryDone

(***************************************************************************)
(* SearchResult: has_more and next_page                                    *)
(***************************************************************************)
MaxPage == 3
MaxTotal == 6

\* has_more: len(results) >= limit without a total count, else
\* offset + len(results) < total_count
HasMoreNoTotal(r) == r.n >= r.limit
HasMore(r) ==
  IF ~r.total_count.set THEN r.n >= r.limit
  ELSE r.offset + r.n < r.total_count.v

\* next_page(): a SearchResult for the following page when has_more, else None
NextPageOf(r) ==
  IF HasMore(r)
    THEN Some([n |-> 0, offset |-> r.offset + r.limit, limit |-> r.limit,
               total_count |-> r.total_count])
    ELSE None

\* the pages a search can have produced: at most limit records, and with a total
\* count no more than the records that remain from offset on
Pages ==
  {r \in [n : 0..MaxPage, offset : 0..MaxTotal, limit : 1..MaxPage,
          total_count : {None} \cup {Some(t) : t \in 0..MaxTotal}] :
     /\ r.n <= r.limit
     /\ r.total_count.set =>
           r.n <= (IF r.total_count.v > r.offset THEN r.total_count.v - r.offset ELSE 0)}

NotRead == [called |-> FALSE]

\* the caller reads result.has_more
ReadHasMore ==
  /\ ~hasMore.set
  /\ hasMore' = Some(HasMore(sr))
  /\ UNCHANGED <<sr, nextPage>>
  /\ UNCHANGED <<notSide, unitVars, poolVars>>

\* the caller calls result.next_page()
CallNextPage ==
  /\ ~nextPage.called
  /\ nextPage' = [called |-> TRUE, ret |-> NextPageOf(sr)]
  /\ UNCHANGED <<sr, hasMore>>
  /\ UNCHANGED <<notSide, unitVars, poolVars>>

\* the caller runs the search for the page next_page() described and fills it in
FillNextPage ==
  /\ nextPage.called /\ nextPage.ret.set
  /\ \E r \in Pages :
       /\ r.offset = nextPage.ret.v.offset
       /\ r.limit = nextPage.ret.v.limit
       /\ r.total_count = nextPage.ret.v.total_count
       /\ sr' = r
  /\ hasMore' = None
  /\ nextPage' = NotRead
  /\ UNCHANGED <<notSide, unitVars, poolVars>>

ResultInit ==
  /\ sr \in Pages
  /\ hasMore = None
  /\ nextPage = NotRead

ResultFixed ==
  /\ sr = [n |-> 0, offset |-> 0, limit |-> 20, total_count |-> None]
  /\ hasMore = None
  /\ nextPage = NotRead

ResultNext == ReadHasMore \/ CallNextPage \/ FillNextPage

(***************************************************************************)
(* unit_utils: parse_value, normalize_value, get_unit_category,            *)
(* compare_values. A value string is its number part (whether float()      *)
(* accepts it, and its magnitude in tenths) and the characters after it.   *)
(***************************************************************************)
\* str.lower() on the characters of the modelled units
StrLower(ch) ==
  CASE ch = "F" -> "f"
    [] ch = "O" -> "o"
    [] ch = "H" -> "h"
    [] ch = "M" -> "m"
    [] ch = "V" -> "v"
    [] ch = "K" -> "k"
    [] ch = "Ω" -> "ω"
    [] OTHER -> ch

RECURSIVE LowerText(_)
LowerText(t) == IF t = <<>> THEN <<>> ELSE <<StrLower(Head(t))>> \o LowerText(Tail(t))

RECURSIVE ReplaceOmega(_)
\* .replace("Ω", "ohm")
ReplaceOmega(t) ==
  IF t = <<>> THEN <<>>
  ELSE (IF Head(t) = "Ω" THEN <<"o", "h", "m">> ELSE <<Head(t)>>) \o ReplaceOmega(Tail(t))

\* the unit characters the pattern of parse_value accepts: [a-zA-Zμ/±%]
UnitClass ==
  {"a", "f", "h", "k", "m", "n", "o", "u", "v", "x", "F", "H", "K", "M", "O", "V",
   "μ", "/", "±", "%"}

\* CAPACITANCE_UNITS, RESISTANCE_UNITS, VOLTAGE_UNITS (the entries the modelled
\* strings can hit), multipliers relative to nF, to the ohm and to the volt
UNIT_CATEGORIES ==
  [capacitance |-> (<<"μ", "f">> :> 1000) @@ (<<"u", "f">> :> 1000) @@ (<<"n", "f">> :> 1),
   resistance |-> (<<"ω">> :> 1) @@ (<<"o", "h", "m">> :> 1) @@ (<<"k", "ω">> :> 1000)
                    @@ (<<"k", "o", "h", "m">> :> 1000),
   voltage |-> (<<"v">> :> 1) @@ (<<"k", "v">> :> 1000)]

\* parse_value: (None, None) when the pattern does not match the whole string or
\* float() rejects the number, else (number, unit)
ParseValue(str) ==
  IF ~str.num.ok \/ \E i \in DOMAIN str.unit : str.unit[i] \notin UnitClass
    THEN None
    ELSE Some([value |-> str.num.tenths, unit |-> str.unit])

\* unit.lower().replace(" ", "").replace("Ω", "ohm")
UnitKey(unit) == ReplaceOmega(LowerText(unit))

\* get_unit_category: the first category whose table has the key, else None
GetUnitCategory(unit) ==
  IF \E c \in DOMAIN UNIT_CATEGORIES : UnitKey(unit) \in DOMAIN UNIT_CATEGORIES[c]
    THEN Some(CHOOSE c \in DOMAIN UNIT_CATEGORIES : UnitKey(unit) \in DOMAIN UNIT_CATEGORIES[c])
    ELSE None

\* normalize_value of unit_utils on a parsed value: the value itself without a unit,
\* value * multiplier for a known unit, None for an unknown one
NormalizeParsed(value, unit) ==
  IF unit = <<>> THEN Some(value)
  ELSE IF GetUnitCategory(unit).set
         THEN Some(value * UNIT_CATEGORIES[GetUnitCategory(unit).v][UnitKey(unit)])
  ELSE None

\* -1, 0 or 1 by the order of two numbers
Order(x, y) == IF x < y THEN 0 - 1 ELSE IF x > y THEN 1 ELSE 0

\* compare_values(value1_str, value2_str). Every two different magnitudes of the
\* modelled strings differ by a relative amount far above the tolerance 1e-10, and
\* equal ones by at most a rounding error below it, so "relative_diff < tolerance"
\* is equality of the exact magnitudes.
CompareValuesOf(value1_str, value2_str) ==
  LET p1 == ParseValue(value1_str)
      p2 == ParseValue(value2_str)
  IN  IF ~p1.set \/ ~p2.set THEN None
      ELSE LET cat1 == IF p1.v.unit # <<>> THEN GetUnitCategory(p1.v.unit) ELSE None
               cat2 == IF p2.v.unit # <<>> THEN GetUnitCategory(p2.v.unit) ELSE None
               norm1 == NormalizeParsed(p1.v.value, p1.v.unit)
               norm2 == NormalizeParsed(p2.v.value, p2.v.unit)
           IN  IF p1.v.unit = <<>> /\ p2.v.unit = <<>> THEN Some(Order(p1.v.value, p2.v.value))
               ELSE IF cat1 # cat2 THEN None
               ELSE IF ~norm1.set \/ ~norm2.set THEN None
               ELSE Some(Order(norm1.v, norm2.v))

\* the value strings of the modelled calls: "abc"-like and well-formed numbers (0.1,
\* 50, 100, 10000), followed by nothing or by a unit spelling
ValueStrings ==
  {[num |-> n, unit |-> u] :
     n \in {[ok |-> FALSE, tenths |-> 0], [ok |-> TRUE, tenths |-> 1],
            [ok |-> TRUE, tenths |-> 500], [ok |-> TRUE, tenths |-> 1000],
            [ok |-> TRUE, tenths |-> 100000]},
     u \in {<<>>, <<"n", "F">>, <<"u", "F">>, <<"μ", "F">>, <<"k", "Ω">>, <<"O", "h", "m">>,
            <<"k", "O", "h", "m">>, <<"V">>, <<"x", "x">>}}

NotCompared == [called |-> FALSE]

\* a caller runs compare_values(a, b)
CompareValues ==
  /\ ~cmpRet.called
  /\ cmpRet' = [called |-> TRUE, ret |-> CompareValuesOf(cmpIn[1], cmpIn[2])]
  /\ UNCHANGED cmpIn
  /\ UNCHANGED <<notSide, resultVars, poolVars>>

UnitInit ==
  /\ cmpIn \in ValueStrings \X ValueStrings
  /\ cmpRet = NotCompared

UnitFixed ==
  /\ cmpIn = <<[num |-> [ok |-> FALSE, tenths |-> 0], unit |-> <<>>],
               [num |-> [ok |-> FALSE, tenths |-> 0], unit |-> <<>>]>>
  /\ cmpRet = NotCompared

UnitNext == CompareValues

(***************************************************************************)
(* LibraryDownloader: download_component on the workers of a               *)
(* ThreadPoolExecutor, the as_completed loop, get_validated_libraries      *)
(***************************************************************************)
MaxIds == 3
MaxWorkers == 2

\* the ids of the components of a result list, in its order
Candidates == <<"C1", "C2", "C3", "C4">>
LibIds == Range(Candidates)

\* the lists asked for: at most MaxIds consecutive candidates (distinct ids)
IdLists ==
  {SubSeq(Candidates, a, b) : a \in DOMAIN Candidates, b \in 0..Len(Candidates)}
    \ {l \in Seq(LibIds) : Len(l) > MaxIds}

\* how a run of easyeda2kicad can end: every file written, some file missing, a
\* non-zero exit code, no end within TIMEOUT_SECONDS
Outcomes == {"complete", "incomplete", "failed", "timeout"}

Running == {i \in DOMAIN futures : futures[i].state = "running"}

\* ThreadPoolExecutor(max_workers): a queued task starts only on a free worker
WorkerAlways == TRUE
WorkerFree == Cardinality(Running) < lcsc_ids.max_workers

\* ComponentLibrary.is_valid(): the files of the id are all there
IsValid(id) == libDir[id] = "complete"

\* executor.submit(self.download_component, lcsc_id) for every id
Submit ==
  /\ futures = <<>>
  /\ ~poolRet.returned
  /\ futures' = [i \in DOMAIN lcsc_ids.ids |-> [state |-> "queued", outcome |-> "pending", result |-> "pending"]]
  /\ UNCHANGED <<lcsc_ids, libDir, results, poolRet>>
  /\ UNCHANGED <<notSide, resultVars, unitVars>>

\* a worker takes the task from the queue
StartDownload(i) ==
  /\ futures[i].state = "queued"
  /\ WorkerFree
  /\ futures' = [futures EXCEPT ![i].state = "running"]
  /\ UNCHANGED <<lcsc_ids, libDir, results, poolRet>>
  /\ UNCHANGED <<notSide, resultVars, unitVars>>

\* download_component runs to its end: a ComponentLibrary when the tool exited with 0
\* and the files validate, None for an exit code, a failed validation, a timeout
FinishDownload(i, outcome) ==
  /\ futures[i].state = "running"
  /\ libDir' = [libDir EXCEPT ![lcsc_ids.ids[i]] =
                  IF outcome \in {"complete", "incomplete"} THEN outcome ELSE @]
  /\ futures' = [futures EXCEPT ![i] =
                   [state |-> "finished", outcome |-> outcome,
                    result |-> IF outcome = "complete" THEN "library" ELSE "none"]]
  /\ UNCHANGED <<lcsc_ids, results, poolRet>>
  /\ UNCHANGED <<notSide, resultVars, unitVars>>

\* for future in as_completed(...): results[lcsc_id] = future.result()
Collect(i) ==
  /\ futures[i].state = "finished"
  /\ results' = [id \in DOMAIN results \cup {lcsc_ids.ids[i]} |->
                   IF id = lcsc_ids.ids[i] THEN futures[i].result ELSE results[id]]
  /\ futures' = [futures EXCEPT ![i].state = "collected"]
  /\ UNCHANGED <<lcsc_ids, libDir, poolRet>>
  /\ UNCHANGED <<notSide, resultVars, unitVars>>

\* the loop and the with-block end; download_components_parallel returns results, and
\* get_validated_libraries the entries that are not None and is_valid()
Return ==
  /\ futures # <<>> \/ lcsc_ids.ids = <<>>
  /\ ~poolRet.returned
  /\ \A i \in DOMAIN futures : futures[i].state = "collected"
  /\ poolRet' =
       [returned |-> TRUE,
        value |-> IF lcsc_ids.validated_only
                    THEN [id \in {x \in DOMAIN results : results[x] # "none" /\ IsValid(x)} |->
                            results[id]]
                    ELSE results]
  /\ UNCHANGED <<lcsc_ids, futures, libDir, results>>
  /\ UNCHANGED <<notSide, resultVars, unitVars>>

NoIds == [ids |-> <<>>, max_workers |-> 10, validated_only |-> FALSE]
NoResults == [id \in {} |-> "none"]

PoolInit ==
  /\ lcsc_ids \in [ids : IdLists, max_workers : 1..MaxWorkers, validated_only : BOOLEAN]
  /\ futures = <<>>
  /\ libDir \in [LibIds -> {"empty"}]
  /\ results = NoResults
  /\ poolRet = [returned |-> FALSE]

PoolFixed ==
  /\ lcsc_ids = NoIds
  /\ futures = <<>>
  /\ libDir = [id \in LibIds |-> "empty"]
  /\ results = NoResults
  /\ poolRet = [returned |-> FALSE]

PoolNext ==
  \/ Submit
  \/ \E i \in DOMAIN futures : StartDownload(i)
  \/ \E i \in DOMAIN futures, outcome \in Outcomes : FinishDownload(i, outcome)
  \/ \E i \in DOMAIN futures : Collect(i)
  \/ Return

SideFixed == ResultFixed /\ UnitFixed /\ PoolFixed

(***************************************************************************)
(* get_connection from end to end: update_if_needed, the exists check,     *)
(* sqlite3.connect, _init_fts5, _optimize_schema, return                   *)
(***************************************************************************)
\* the process whose call is followed
Caller == "p1"

FreshStore ==
  /\ col' = [c \in Range(DenormColumns) |-> NoColumn]
  /\ idx' = {}
  /\ ftsExists' = FALSE
  /\ ftsDocs' = [r \in Rows |-> 0]

\* somebody empties the cache directory while no call is writing to it: the snapshot
\* is gone, and with it whatever the migrations had added to it
CacheCleared ==
  /\ pc[Caller] \in {"idle", "exists"}
  /\ snap.exists
  /\ snap' = MissingSnap
  /\ FreshStore
  /\ UNCHANGED <<clock, parts, pc, partNum, partFiles, exc, updRet,
                 fetchLog, chkExists, chkAge, ranExtract, opened, dlFresh>>
  /\ UNCHANGED <<roStore, compCat, compMan, writer, mpc, mi, txCol, txIdx, txFts, merr,
                 solo, oStart>>
  /\ UNCHANGED <<searchVars, queryVars, sideVars>>

\* conn = sqlite3.connect(str(self.database_path)): a file that is no database with
\* tables makes the first statement on it raise
ConnectOpen(p) ==
  /\ pc[p] = "connect"
  /\ opened' = [opened EXCEPT ![p] = Visible(snap)]
  /\ IF snap.exists /\ snap.content = "valid"
       THEN /\ pc' = [pc EXCEPT ![p] = "migrate"]
            /\ UNCHANGED exc
       ELSE /\ pc' = [pc EXCEPT ![p] = "raised"]
            /\ exc' = [exc EXCEPT ![p] = "sqlite3.Error"]
  /\ UNCHANGED <<clock, snap, parts, partNum, partFiles, updRet, fetchLog, chkExists,
                 chkAge, ranExtract, dlFresh>>
  /\ UNCHANGED notCache

\* if enable_fts5: self._init_fts5(conn); self._optimize_schema(conn)
ConnMigrate(p, enable_fts5) ==
  /\ pc[p] = "migrate"
  /\ MigStart(p, enable_fts5)

\* return conn, or the exception of a migration leaves get_connection
ConnEnd(p) ==
  /\ pc[p] = "migrate"
  /\ mpc[p] \in {"m_returned", "m_raised"}
  /\ IF mpc[p] = "m_returned"
       THEN /\ pc' = [pc EXCEPT ![p] = "returned"]
            /\ UNCHANGED exc
       ELSE /\ pc' = [pc EXCEPT ![p] = "raised"]
            /\ exc' = [exc EXCEPT ![p] = "sqlite3.OperationalError"]
  /\ UNCHANGED <<clock, snap, parts, partNum, partFiles, updRet, fetchLog, chkExists,
                 chkAge, ranExtract, opened, dlFresh>>
  /\ UNCHANGED notCache

\* the caller has the connection or the exception, and may call again
ConnFinish(p) ==
  /\ pc[p] \in {"returned", "raised"}
  /\ pc' = [pc EXCEPT ![p] = "idle"]
  /\ exc' = [exc EXCEPT ![p] = "none"]
  /\ updRet' = [updRet EXCEPT ![p] = "none"]
  /\ fetchLog' = [fetchLog EXCEPT ![p] = <<>>]
  /\ partFiles' = [partFiles EXCEPT ![p] = <<>>]
  /\ partNum' = [partNum EXCEPT ![p] = 1]
  /\ chkExists' = [chkExists EXCEPT ![p] = FALSE]
  /\ chkAge' = [chkAge EXCEPT ![p] = 0]
  /\ ranExtract' = [ranExtract EXCEPT ![p] = FALSE]
  /\ opened' = [opened EXCEPT ![p] = "none"]
  /\ dlFresh' = [dlFresh EXCEPT ![p] = "none"]
  /\ mpc' = [mpc EXCEPT ![p] = "m_idle"]
  /\ merr' = [merr EXCEPT ![p] = "none"]
  /\ mi' = [mi EXCEPT ![p] = 1]
  /\ txCol' = [txCol EXCEPT ![p] = NoTx]
  /\ txIdx' = [txIdx EXCEPT ![p] = {}]
  /\ txFts' = [txFts EXCEPT ![p] = FALSE]
  /\ writer' = IF writer = p THEN "none" ELSE writer
  /\ solo' = [solo EXCEPT ![p] = FALSE]
  /\ oStart' = [oStart EXCEPT ![p] = [col |-> NoTx, idx |-> {}, seen |-> FALSE]]
  /\ UNCHANGED <<clock, snap, parts>>
  /\ UNCHANGED <<roStore, compCat, compMan, col, idx, ftsExists, ftsDocs>>
  /\ UNCHANGED <<searchVars, queryVars, sideVars>>

ConnNext ==
  \/ CacheCleared
  \/ GetConnection(Caller)
  \/ UpdateIfNeeded(Caller)
  \/ FetchPart(Caller)
  \/ FetchZip(Caller)
  \/ ExtractBegin(Caller)
  \/ ExtractEnd(Caller)
  \/ ValidateDatabase(Caller)
  \/ Cleanup(Caller)
  \/ ExistsCheck(Caller)
  \/ ConnectOpen(Caller)
  \/ \E enable_fts5 \in BOOLEAN : ConnMigrate(Caller, enable_fts5)
  \/ InitFts5Check(Caller)
  \/ InitFts5Create(Caller)
  \/ InitFts5Insert(Caller)
  \/ InitFts5Commit(Caller)
  \/ OptimizeCheck(Caller)
  \/ OptimizeAlter(Caller)
  \/ OptimizeUpdate(Caller)
  \/ OptimizeIndex(Caller)
  \/ OptimizeCommit(Caller)
  \/ ConnEnd(Caller)
  \/ ConnFinish(Caller)

(***************************************************************************)
(* Specifications                                                          *)
(***************************************************************************)
CacheQuiet ==
  /\ clock = 0
  /\ snap = [exists |-> TRUE, mtime |-> 0, content |-> "valid", validated |-> TRUE]
  /\ parts = {}
  /\ pc = [p \in Procs |-> "idle"]
  /\ partNum = [p \in Procs |-> 1]
  /\ partFiles = [p \in Procs |-> <<>>]
  /\ exc = [p \in Procs |-> "none"]
  /\ updRet = [p \in Procs |-> "none"]
  /\ fetchLog = [p \in Procs |-> <<>>]
  /\ chkExists = [p \in Procs |-> FALSE]
  /\ chkAge = [p \in Procs |-> 0]
  /\ ranExtract = [p \in Procs |-> FALSE]
  /\ opened = [p \in Procs |-> "none"]
  /\ dlFresh = [p \in Procs |-> "none"]

\* the cache directory: DatabaseManager under concurrent callers and a running clock
InitCache == CacheInit /\ MigFixed /\ SearchFixed /\ QueryFixed /\ SideFixed

SpecCache == InitCache /\ [][CacheNext]_vars

\* the migrations get_connection runs on one store, from concurrent processes
InitMig == CacheQuiet /\ MigInit /\ SearchFixed /\ QueryFixed /\ SideFixed

SpecMig == InitMig /\ [][MigNext]_vars

InitSearch == CacheQuiet /\ MigFixed /\ SearchInit /\ QueryFixed /\ SideFixed

\* ComponentSearch.search on a store nobody modifies
SpecSearch == InitSearch /\ [][SearchNext]_vars

InitPage == CacheQuiet /\ MigFixed /\ PageInit /\ QueryFixed /\ SideFixed

\* a caller paging through the results of one filter
SpecPage == InitPage /\ [][PageNext]_vars

InitQuery == CacheQuiet /\ MigFixed /\ QueryInit /\ SideFixed

\* the calls of the query engine with every filter field, on a store nobody modifies
SpecQuery == InitQuery /\ [][QueryNext]_vars

InitResult ==
  CacheQuiet /\ MigFixed /\ SearchFixed /\ QueryFixed /\ ResultInit /\ UnitFixed
    /\ PoolFixed

\* a caller holding a SearchResult
SpecResult == InitResult /\ [][ResultNext]_vars

InitUnit ==
  CacheQuiet /\ MigFixed /\ SearchFixed /\ QueryFixed /\ ResultFixed /\ UnitInit
    /\ PoolFixed

InitConn == CacheInit /\ MigInit /\ SearchFixed /\ QueryFixed /\ SideFixed

\* one caller's get_connection from its first line to its return
SpecConn == InitConn /\ [][ConnNext]_vars

InitPool ==
  CacheQuiet /\ MigFixed /\ SearchFixed /\ QueryFixed /\ ResultFixed /\ UnitFixed
    /\ PoolInit

\* one call of download_components_parallel or get_validated_libraries
SpecPool == InitPool /\ [][PoolNext]_vars

\* callers of compare_values
SpecUnit == InitUnit /\ [][UnitNext]_vars

(***************************************************************************)
(* Properties of the migrations (SpecMig)                                  *)
(***************************************************************************)
\* the name the lookup tables give row r for denormalized column c
LookupName(c, r) ==
  IF c = "manufacturer_name"
    THEN IF \E m \in DOMAIN ManufacturersTable : m = compMan[r]
           THEN ManufacturersTable[compMan[r]].name ELSE "NULL"
    ELSE IF \E k \in DOMAIN CategoriesTable : k = compCat[r]
           THEN IF c = "category_name" THEN CategoriesTable[compCat[r]].category
                ELSE CategoriesTable[compCat[r]].subcategory
           ELSE "NULL"

\* the schema _optimize_schema is meant to leave behind
SchemaComplete ==
  /\ \A c \in Range(DenormColumns) :
       col[c].present /\ \A r \in Rows : col[c].val[r] = LookupName(c, r)
  /\ Range(IndexNames) \subseteq idx

MigQuiescent == \A p \in Procs : ~MigActive(p)

\* C5: an optimizer pass that runs alone on a writable store without denormalized
\* columns returns with the three columns added and backfilled from the lookup tables
\* and with the four indexes created; a pass on a store that already has the marker
\* column returns without error and leaves every column and index as it found them.
C5_OptimizeOnceThenNoOp ==
  \A p \in Procs :
    (mpc[p] \in {"m_returned", "m_raised"} /\ oStart[p].seen /\ solo[p] /\ ~roStore) =>
      IF \A c \in Range(DenormColumns) : ~oStart[p].col[c].present
        THEN /\ mpc[p] = "m_returned"
             /\ SchemaComplete
             /\ idx = oStart[p].idx \cup Range(IndexNames)
             /\ Cardinality(idx \ oStart[p].idx) = 4
             /\ Cardinality(PresentColumns) = 3
        ELSE /\ mpc[p] = "m_returned"
             /\ merr[p] \in {"none", "already exists"}
             /\ col = oStart[p].col
             /\ idx = oStart[p].idx

\* C5 witness: a pass that ran alone on an already optimized store has returned
C5_Witness ==
  \E p \in Procs :
    /\ mpc[p] = "m_returned" /\ solo[p] /\ oStart[p].seen
    /\ oStart[p].col["category_name"].present
    /\ Cardinality(oStart[p].idx) = 4

\* C6: concurrent optimizer passes on one writable store (no full-text build
\* involved): no invocation fails, and once all have returned the schema is complete.
C6_ConcurrentOptimizersSucceed ==
  (~roStore /\ ~ftsExists) =>
    /\ \A p \in Procs : mpc[p] # "m_raised"
    /\ (MigQuiescent /\ \E p \in Procs : oStart[p].seen) => SchemaComplete

\* C7: in _init_fts5 and _optimize_schema an engine error meaning "already exists" or
\* "read-only database" never reaches the caller, and every other engine error does.
C7_OnlyOtherErrorsPropagate ==
  \A p \in Procs :
    /\ mpc[p] = "m_raised" =>
         merr[p] \notin {"already exists", "duplicate column name", "readonly database"}
    /\ merr[p] \in {"database is locked"} => mpc[p] = "m_raised"

\* C8: the full-text index is never populated twice, a builder whose CREATE fails
\* with "already exists" returns normally, and once two concurrent builders, one of
\* which lost the creation with "already exists", are both done, components_fts holds
\* exactly one entry per row.
C8_FtsBuiltExactlyOnce ==
  /\ \A r \in Rows : ftsDocs[r] <= 1
  /\ \A p \in Procs : merr[p] = "already exists" => mpc[p] # "m_raised"
  /\ (MigQuiescent /\ \E p \in Procs : merr[p] = "already exists") =>
       \A r \in Rows : ftsDocs[r] = 1

(***************************************************************************)
(* Properties of the search (SpecSearch)                                   *)
(***************************************************************************)
BoolInt(b) == IF b THEN 1 ELSE 0

\* (r1.basic, r1.stock, -r1.price) >= (r2.basic, r2.stock, -r2.price), lexicographically
SortKeyGE(r1, r2) ==
  \/ BoolInt(r1.basic) > BoolInt(r2.basic)
  \/ /\ BoolInt(r1.basic) = BoolInt(r2.basic)
     /\ \/ r1.stock > r2.stock
        \/ r1.stock = r2.stock /\ (0 - r1.price) >= (0 - r2.price)

\* C9: in every page search() returns, consecutive results r1, r2 satisfy
\* (r1.basic, r1.stock, -r1.price) >= (r2.basic, r2.stock, -r2.price).
C9_PageSorted ==
  res.status = "ok" =>
    \A i \in 1..(Len(res.page) - 1) : SortKeyGE(res.page[i], res.page[i + 1])

\* C9 witness: a returned page whose first two results tie on basic and stock and are
\* ordered by the first-tier price alone
C9_Witness ==
  /\ res.status = "ok" /\ Len(res.page) >= 2
  /\ res.page[1].basic = res.page[2].basic
  /\ res.page[1].stock = res.page[2].stock
  /\ res.page[1].price < res.page[2].price

\* C10: the same search() repeated on the unmodified store returns the same sequence
\* of records, rows that tie on the sort keys coming in ascending id order.
C10_RepeatableOrder ==
  (res0.status = "ok" /\ res.status = "ok") =>
    /\ res.page = res0.page
    /\ \A i \in 1..(Len(res.page) - 1) :
         (SortKeyGE(res.page[i], res.page[i + 1]) /\ SortKeyGE(res.page[i + 1], res.page[i]))
           => res.page[i].lcsc[2] < res.page[i + 1].lcsc[2]

\* the rows the WHERE clause of params lets through
Matching(params) == {k \in Lcscs : WherePlain(db[k], params) /\ WherePrice(db[k], params)}

\* C11: when a filter matches more than k+n rows, the page (offset=k, limit=n) and the
\* page (offset=k+n, limit=n), n in 1..100, do not start with the same record.
C11_NextPageStartsElsewhere ==
  (/\ query0.set /\ query.set
   /\ query0.params.limit \in 1..100 /\ query0.params.offset >= 0
   /\ query.params = [query0.params EXCEPT !.offset = @ + query0.params.limit]
   /\ Cardinality(Matching(query0.params)) > query0.params.offset + query0.params.limit
   /\ res0.status = "ok" /\ res.status = "ok"
   /\ res0.page # <<>> /\ res.page # <<>>)
    => res0.page[1] # res.page[1]

\* C13: when exactly one of the N rows a filter matches (N within the page limit, no
\* price bound, offset 0) carries a price payload that is not JSON and the others
\* hydrate, search() raises nothing and returns the other N-1 records, sorted.
C13_MalformedRowSkipped ==
  LET hit == IF query.set THEN {k \in Lcscs : WherePlain(db[k], query.params)} ELSE {}
      bad == {k \in hit : db[k].price.json = "malformed"}
  IN  (/\ query.set /\ res.status # "none"
       /\ ~query.params.max_price.set /\ query.params.offset = 0
       /\ Cardinality(hit) <= EffectiveLimit(query.params)
       /\ Cardinality(bad) = 1
       /\ \A k \in hit \ bad : Hydratable(db[k]))
        => /\ res.status = "ok"
           /\ {res.page[i].lcsc[2] : i \in DOMAIN res.page} = hit \ bad
           /\ Len(res.page) = Cardinality(hit) - 1
           /\ \A i \in 1..(Len(res.page) - 1) : SortKeyGE(res.page[i], res.page[i + 1])


(***************************************************************************)
(* Properties of the calls (SpecQuery)                                     *)
(***************************************************************************)
\* the page size the caller is entitled to: 1 for a request <= 0, 100 for a request
\* of 100 or more, the request itself in between
Clamped(requested) ==
  IF requested <= 0 THEN 1 ELSE IF requested >= 100 THEN 100 ELSE requested

\* C12: search() binds LIMIT to max(1, min(limit, 100)) and never returns more records
\* than that; search_components echoes the clamped limit and a non-negative offset.
C12_LimitClamped ==
  /\ (query.set /\ query.op = "search") =>
       /\ stmt.args[Len(stmt.args) - 1] = Clamped(query.params.limit)
       /\ Len(res.page) <= Clamped(query.params.limit)
  /\ (query.set /\ query.op = "search_components") =>
       /\ echo.limit = Clamped(query.limit)
       /\ echo.offset >= 0
       /\ echo.offset = (IF query.offset < 0 THEN 0 ELSE query.offset)
       /\ Len(res.page) <= echo.limit

\* C12 witness: search() asked for a negative limit returned exactly one record of a
\* store where every row matches
C12_Witness ==
  /\ query.set /\ query.op = "search"
  /\ query.params.limit < 0 /\ query.params.offset = 0
  /\ ~query.params.in_stock_only
  /\ Len(res.page) = 1


\* text contains sub as a run of consecutive characters, letters without regard to case
Contains(text, sub) ==
  \E i \in 0..(Len(text) - Len(sub)) :
    \A j \in 1..Len(sub) : Lower(text[i + j]) = Lower(sub[j])

\* C14: every record search() returns satisfies every present filter at once: its
\* manufacturer contains the given text, it is basic when basic_only, its stock is
\* positive when in_stock_only and at least min_stock when min_stock > 0, and its
\* first-tier unit price is at most max_price.
C14_FiltersConjoined ==
  (query.set /\ query.op = "search" /\ res.status = "ok") =>
    \A i \in DOMAIN res.page :
      LET c == res.page[i]
          p == query.params
      IN  /\ Truthy(p.manufacturer) =>
                c.manufacturer.set /\ Contains(c.manufacturer.v, p.manufacturer.v)
          /\ p.basic_only => c.basic
          /\ p.in_stock_only => c.stock > 0
          /\ (p.min_stock > 0) => c.stock >= p.min_stock
          /\ p.max_price.set => c.price <= p.max_price.v


\* C15: with a category (subcategory) filter, every record search() returns has that
\* category (subcategory) exactly: not one that merely contains the text, nor one that
\* differs from it in letter case.
C15_CategoryExact ==
  (query.set /\ query.op = "search" /\ res.status = "ok") =>
    \A i \in DOMAIN res.page :
      LET c == res.page[i]
          p == query.params
      IN  /\ Truthy(p.category) => c.category = Some(p.category.v)
          /\ Truthy(p.subcategory) => c.subcategory = Some(p.subcategory.v)


\* the stored row a returned record was made from
RowOf(c) == db[IntOf(c.lcsc.digits)]

\* C16: with a package filter, search() returns only records whose package is exactly
\* the given text, whatever the other filters; a package no record carries gives an
\* empty sequence and no error.
C16_PackageExact ==
  (query.set /\ query.op = "search" /\ query.params.package.set) =>
    /\ res.status = "ok"
    /\ \A i \in DOMAIN res.page : RowOf(res.page[i]).package = query.params.package.v


\* CAPACITANCE_UNITS, the multipliers in picofarads (the table's 1e-12 F)
CapacitanceUnits == ("uF" :> 1000000) @@ ("nF" :> 1000) @@ ("pF" :> 1)

\* normalize_value(value, unit): the value in the base unit, None for an unknown unit
NormalizeValue(q) ==
  IF q.unit \in DOMAIN CapacitanceUnits THEN Some(q.value * CapacitanceUnits[q.unit])
  ELSE None

\* a stored attribute lies within the range: both normalize, the value is >= min and
\* <= max where those are given
InRange(attribute, range) ==
  /\ attribute.set
  /\ NormalizeValue(attribute.v).set
  /\ range.min.set =>
       /\ NormalizeValue(range.min.v).set
       /\ NormalizeValue(attribute.v).v >= NormalizeValue(range.min.v).v
  /\ range.max.set =>
       /\ NormalizeValue(range.max.v).set
       /\ NormalizeValue(attribute.v).v <= NormalizeValue(range.max.v).v

\* C17: with an attribute range, search() keeps a record only if its stored value,
\* normalized to the base unit, lies between the normalized bounds; a record without
\* the attribute or with an unknown unit is left out, and the call does not fail.
C17_AttributeRange ==
  (query.set /\ query.op = "search" /\ query.params.attribute_ranges.set) =>
    /\ res.status = "ok"
    /\ \A i \in DOMAIN res.page :
         InRange(RowOf(res.page[i]).cap, query.params.attribute_ranges.v)


\* which filter fields of a QueryParams are present (given, and not empty or zero)
PresentFields(p) ==
  [category |-> Truthy(p.category), subcategory |-> Truthy(p.subcategory),
   manufacturer |-> Truthy(p.manufacturer),
   description_contains |-> Truthy(p.description_contains),
   basic_only |-> p.basic_only, in_stock_only |-> p.in_stock_only,
   min_stock |-> p.min_stock > 0, max_price |-> p.max_price.set]

\* the one statement text that goes with a set of present fields
TextOf(present) ==
  <<SelectFrom>>
    \o (IF present.category THEN <<CategoryLike>> ELSE <<>>)
    \o (IF present.subcategory THEN <<SubcategoryLike>> ELSE <<>>)
    \o (IF present.manufacturer THEN <<ManufacturerLike>> ELSE <<>>)
    \o (IF present.description_contains THEN <<DescriptionLike>> ELSE <<>>)
    \o (IF present.basic_only THEN <<BasicIsOne>> ELSE <<>>)
    \o (IF present.in_stock_only THEN <<StockPositive>> ELSE <<>>)
    \o (IF present.min_stock THEN <<StockAtLeast>> ELSE <<>>)
    \o (IF present.max_price THEN <<PriceAtMost>> ELSE <<>>)
    \o <<OrderByClause, LimitOffsetClause>>

\* the caller's values of the present fields, in the order of their placeholders
ValuesOf(p) ==
  (IF Truthy(p.category) THEN <<Wrap(p.category.v)>> ELSE <<>>)
    \o (IF Truthy(p.subcategory) THEN <<Wrap(p.subcategory.v)>> ELSE <<>>)
    \o (IF Truthy(p.manufacturer) THEN <<Wrap(p.manufacturer.v)>> ELSE <<>>)
    \o (IF Truthy(p.description_contains)
          THEN <<Wrap(p.description_contains.v), Wrap(p.description_contains.v)>>
          ELSE <<>>)
    \o (IF p.min_stock > 0 THEN <<p.min_stock>> ELSE <<>>)
    \o (IF p.max_price.set THEN <<p.max_price.v>> ELSE <<>>)
    \o <<Clamped(p.limit), p.offset>>

\* C18: the statement text of search() is determined by which filter fields are
\* present and never by their values, the text of search_by_lcsc() is one constant,
\* and every value of the caller is among the bound parameters.
C18_ValuesBoundNotSpliced ==
  /\ (query.set /\ query.op \in {"search", "search_components"}) =>
       /\ stmt.text = TextOf(PresentFields(query.params))
       /\ stmt.args = ValuesOf(query.params)
  /\ (query.set /\ query.op = "search_by_lcsc" /\ stmt # NoStmt) =>
       /\ stmt.text = <<LookupByLcsc>>
       /\ stmt.args = <<IntOf(query.id.digits)>>

\* C18 witness: a search with a category filter ran and returned records
C18_Witness ==
  /\ query.set /\ query.op = "search"
  /\ Truthy(query.params.category)
  /\ stmt.args[1] = Wrap(query.params.category.v)
  /\ res.status = "ok" /\ res.page # <<>>


\* the stored rows an external id names: those whose key the digits after "C" spell
RowsNamed(id) == {k \in Lcscs : id.letter = "C" /\ IntOf(id.digits) = k}

\* C19: search_by_lcsc() with a well-formed id (a letter and decimal digits) that names
\* no row returns None and raises nothing; search() returns an empty list and raises
\* nothing when no row passes the filter or the offset lies beyond the last match.
C19_AbsenceIsValue ==
  /\ (query.set /\ query.op = "search_by_lcsc" /\ RowsNamed(query.id) = {}) =>
       res = [status |-> "ok", page |-> <<>>]
  /\ (query.set /\ query.op = "search") =>
       LET hit == {k \in Lcscs : WhereHolds(db[k], stmt.text, stmt.args)}
       IN  /\ res.status = "ok"
           /\ (query.params.offset >= Cardinality(hit)) => res.page = <<>>


\* decimal digits as a number is written: no leading zero
Canonical(digits) == digits # <<>> /\ (Len(digits) > 1 => digits[1] # 0)

\* C20: the id translation round-trips: for an external id of a letter and canonical
\* decimal digits whose key the store holds, search_by_lcsc() returns one record, and
\* that record's external id is the id asked for.
C20_IdRoundTrip ==
  (/\ query.set /\ query.op = "search_by_lcsc"
   /\ Canonical(query.id.digits)
   /\ IntOf(query.id.digits) \in Lcscs) =>
    /\ res.status = "ok"
    /\ Len(res.page) = 1
    /\ res.page[1].lcsc = query.id


(***************************************************************************)
(* Properties of SearchResult (SpecResult)                                 *)
(***************************************************************************)
\* C21: has_more is exact when the total count is known (true exactly when records
\* remain beyond the page: offset + returned < total) and otherwise is the heuristic
\* returned = limit; next_page() describes a page exactly when has_more.
C21_HasMoreExactOrHeuristic ==
  /\ hasMore.set =>
       IF sr.total_count.set
         THEN hasMore.v <=> (sr.offset + sr.n < sr.total_count.v)
         ELSE hasMore.v <=> (sr.n = sr.limit)
  /\ nextPage.called =>
       (nextPage.ret.set <=>
          IF sr.total_count.set THEN sr.offset + sr.n < sr.total_count.v
          ELSE sr.n = sr.limit)

\* C21 witness: a full page that is the last one, with the total known, read as
\* "no more"
C21_Witness ==
  /\ hasMore = Some(FALSE)
  /\ sr.total_count.set
  /\ sr.n = sr.limit
  /\ sr.offset + sr.n = sr.total_count.v


(***************************************************************************)
(* Properties of compare_values (SpecUnit)                                 *)
(***************************************************************************)
RECURSIVE Spelling(_)
\* a unit spelling without regard to letter case, with Ω written "ohm" and μ written "u"
Spelling(unit) ==
  IF unit = <<>> THEN <<>>
  ELSE (CASE Head(unit) \in {"Ω", "ω"} -> <<"o", "h", "m">>
          [] Head(unit) = "μ" -> <<"u">>
          [] OTHER -> <<StrLower(Head(unit))>>) \o Spelling(Tail(unit))

\* the category and the base-unit multiplier a unit spelling stands for
KnownUnits ==
  (<<"u", "f">> :> [category |-> "capacitance", multiplier |-> 1000]) @@
  (<<"n", "f">> :> [category |-> "capacitance", multiplier |-> 1]) @@
  (<<"o", "h", "m">> :> [category |-> "resistance", multiplier |-> 1]) @@
  (<<"k", "o", "h", "m">> :> [category |-> "resistance", multiplier |-> 1000]) @@
  (<<"v">> :> [category |-> "voltage", multiplier |-> 1])

\* what compare(a, b) is to return
Compared(a, b) ==
  IF ~a.num.ok \/ ~b.num.ok THEN None
  ELSE IF a.unit = <<>> /\ b.unit = <<>> THEN Some(Order(a.num.tenths, b.num.tenths))
  ELSE IF Spelling(a.unit) \notin DOMAIN KnownUnits \/ Spelling(b.unit) \notin DOMAIN KnownUnits
         THEN None
  ELSE IF KnownUnits[Spelling(a.unit)].category # KnownUnits[Spelling(b.unit)].category
         THEN None
  ELSE Some(Order(a.num.tenths * KnownUnits[Spelling(a.unit)].multiplier,
                  b.num.tenths * KnownUnits[Spelling(b.unit)].multiplier))

\* C22: compare_values returns None for a malformed string, for units of different
\* categories and for a unit in no table, compares the numbers of two unitless
\* strings, and otherwise orders the base-unit magnitudes (0 when they are equal),
\* whatever the letter case and the Ω/ohm spelling of the units.
C22_CompareValues ==
  cmpRet.called => cmpRet.ret = Compared(cmpIn[1], cmpIn[2])


(***************************************************************************)
(* Properties of the library downloads (SpecPool)                          *)
(***************************************************************************)
\* C23: never more than max_workers downloads run at once; in whatever order the
\* tasks end, download_components_parallel returns one entry for each id asked for,
\* None for a task that failed or timed out and a library otherwise, after every task
\* has run; get_validated_libraries returns exactly the entries that are libraries
\* and valid.
C23_BoundedFanOut ==
  /\ Cardinality(Running) <= lcsc_ids.max_workers
  /\ poolRet.returned =>
       /\ \A i \in DOMAIN lcsc_ids.ids : futures[i].state = "collected"
       /\ ~lcsc_ids.validated_only =>
            /\ DOMAIN poolRet.value = Range(lcsc_ids.ids)
            /\ \A i \in DOMAIN lcsc_ids.ids :
                 poolRet.value[lcsc_ids.ids[i]] =
                   (IF futures[i].outcome = "complete" THEN "library" ELSE "none")
       /\ lcsc_ids.validated_only =>
            /\ DOMAIN poolRet.value =
                 {lcsc_ids.ids[i] : i \in {j \in DOMAIN lcsc_ids.ids :
                                             futures[j].outcome = "complete"}}
            /\ \A id \in DOMAIN poolRet.value : poolRet.value[id] = "library"

\* C23 witness: more ids than workers, one download timed out and one succeeded, and
\* the call returned both entries
C23_Witness ==
  /\ poolRet.returned
  /\ ~lcsc_ids.validated_only
  /\ Len(lcsc_ids.ids) > lcsc_ids.max_workers
  /\ \E i, j \in DOMAIN futures :
       futures[i].outcome = "timeout" /\ futures[j].outcome = "complete"


(***************************************************************************)
(* Properties of get_connection from end to end (SpecConn)                 *)
(***************************************************************************)
\* C24: get_connection returns a connection only after update_if_needed has
\* completed, then the store was opened, then _optimize_schema ran on that
\* connection; and when no snapshot exists after update_if_needed it raises
\* FileNotFoundError and opens nothing.
C24_ConnectionOrder ==
  /\ [](/\ opened[Caller] # "none" => updRet[Caller] \in {"True", "False"}
        /\ mpc[Caller] # "m_idle" => opened[Caller] # "none"
        /\ oStart[Caller].seen => opened[Caller] # "none"
        /\ pc[Caller] = "returned" =>
             /\ updRet[Caller] \in {"True", "False"}
             /\ opened[Caller] # "none"
             /\ mpc[Caller] = "m_returned" /\ oStart[Caller].seen
        /\ exc[Caller] = "FileNotFoundError" =>
             /\ pc[Caller] = "raised"
             /\ updRet[Caller] \in {"True", "False"}
             /\ opened[Caller] = "none" /\ mpc[Caller] = "m_idle")
  /\ [][(pc[Caller] = "exists" /\ pc'[Caller] # "exists") =>
          IF snap.exists
            THEN pc'[Caller] = "connect" /\ exc'[Caller] = "none"
            ELSE pc'[Caller] = "raised" /\ exc'[Caller] = "FileNotFoundError"]_vars

\* C24 witness: the call downloaded the snapshot, opened it, ran the optimizer pass to
\* its commit and returned the connection
C24_Witness ==
  /\ pc[Caller] = "returned"
  /\ updRet[Caller] = "True"
  /\ opened[Caller] = "validated"
  /\ oStart[Caller].seen /\ ~oStart[Caller].col["category_name"].present
  /\ col["category_name"].present


\* C25: download_database requests cache.z01, cache.z02, ... in ascending order, each
\* once; the first 404 (or the last allowed number) ends the numbered requests and the
\* next request is cache.zip, exactly once and last; 7z starts only after cache.zip
\* was fetched.
C25_PartsInOrder ==
  LET log == fetchLog[Caller]
  IN  /\ \A i \in DOMAIN log :
           /\ log[i].part # ZipPart => log[i].part = i /\ i <= MaxPartNum
           /\ log[i].part = ZipPart => i = Len(log)
           /\ i < Len(log) =>
                /\ log[i].outcome \in {"ok", "404"}
                /\ log[i].outcome = "404" => log[i + 1].part = ZipPart
                /\ (log[i].outcome = "ok" /\ i < MaxPartNum) => log[i + 1].part = i + 1
                /\ (log[i].outcome = "ok" /\ i = MaxPartNum) => log[i + 1].part = ZipPart
      /\ pc[Caller] \in {"x7z", "extracting", "validate"} \/ ranExtract[Caller] =>
           /\ log # <<>>
           /\ log[Len(log)] = [part |-> ZipPart, outcome |-> "ok"]

\* C25 witness: cache.z01 fetched, cache.z02 answered 404, cache.zip fetched, and the
\* extraction has started
C25_Witness ==
  /\ fetchLog[Caller] = <<[part |-> 1, outcome |-> "ok"], [part |-> 2, outcome |-> "404"],
                          [part |-> ZipPart, outcome |-> "ok"]>>
  /\ ranExtract[Caller]


\* the part files the current call has written
Written(p) ==
  {fetchLog[p][i].part : i \in {j \in DOMAIN fetchLog[p] : fetchLog[p][j].outcome = "ok"}}

\* C26: once download_database has returned or raised, after a failed fetch, a failed
\* extraction, a failed validation or a success, no part file the call wrote is left
\* in the cache directory.
C26_PartsRemoved ==
  pc[Caller] \in {"exists", "connect", "migrate", "returned", "raised"} =>
    Written(Caller) \cap parts = {}

\* C26 witness: the call wrote two part files, 7z failed, and the exception left
\* download_database
C26_Witness ==
  /\ pc[Caller] = "raised" /\ exc[Caller] = "BadZipFile"
  /\ Cardinality(Written(Caller)) >= 2


(***************************************************************************)
(* Marker invariants of the migrations (SpecMig)                           *)
(***************************************************************************)
\* C27: whenever the marker column category_name exists and no process is inside a
\* migration (also after a pass that failed part-way), the three denormalized columns
\* exist and are backfilled and the four indexes exist.
C27_MarkerMeansOptimized ==
  (col["category_name"].present /\ MigQuiescent) => SchemaComplete

\* C28: whenever components_fts exists and no process is inside a migration (also
\* after a build that failed between CREATE and commit), the index holds exactly one
\* entry for every components row.
C28_FtsTableMeansPopulated ==
  (ftsExists /\ MigQuiescent) => \A r \in Rows : ftsDocs[r] = 1


(***************************************************************************)
(* Concurrent downloads in one cache directory (SpecCache)                 *)
(***************************************************************************)
\* the call of p has written part files and has not finished extracting them
AwaitingExtract(p) == pc[p] \in {"fetch", "zip", "x7z", "extracting"}

\* C29: two concurrent downloads in one cache directory do not interfere: every part
\* file a call has written stays in the directory until that call has extracted it, and
\* a call that returns without an error leaves a validated snapshot in place
C29_DownloadsDoNotInterfere ==
  /\ \A p \in Procs : AwaitingExtract(p) => Range(partFiles[p]) \subseteq parts
  /\ \A p \in Procs :
       (pc[p] = "exists" /\ updRet[p] = "True") => (snap.exists /\ snap.validated)


(***************************************************************************)
(* Library validation in search_components (SpecQuery)                     *)
(***************************************************************************)
\* the external ids of the candidates: the letter and the digits of the internal key
CandidateIds == {IdText(libs.candidates[i].lcsc) : i \in DOMAIN libs.candidates}

\* C30: in search_components with validate_libraries, every id handed to the library
\* downloader or recorded as validated is the external id of one of the first
\* validation_candidates records of search(), and a record stays in the results if and
\* only if its own external id was validated
C30_ValidatedByExternalId ==
  (query.set /\ libs.set) =>
    /\ Range(libs.handed) \subseteq CandidateIds
    /\ libs.validated \subseteq CandidateIds
    /\ res.page = SelectSeq(libs.found, LAMBDA c : IdText(c.lcsc) \in libs.validated)

=============================================================================
